---- MODULE Spec2Model ----
(***************************************************************************)
(* A model of the timeline annotation engine of                            *)
(* python-be/plan_generation/enrich_plan.py.                               *)
(*                                                                         *)
(* Units.  Times are integers in milliseconds (the subtitle format has     *)
(* millisecond timecodes); round(x, 2) is rounding to a multiple of 10 ms. *)
(* Highlight scores are integers in tenths (0.6 is 6); an averaged score   *)
(* is kept as the exact fraction num/den.  B-roll scores are in tenths     *)
(* (2.5 is 25).  motion_frequency is in tenths (0.3 is 3).                 *)
(*                                                                         *)
(* Strings are atomic values; the operations of the code that look inside  *)
(* a string (lower, upper, title, split, substring search, truncation)     *)
(* work on its spelling, a sequence of one-character strings.              *)
(***************************************************************************)
EXTENDS Integers, Sequences, FiniteSets, TLC

VARIABLES
  pc,              \* the position of the run
  segments,        \* plan["segments"]
  highlights,      \* plan["highlights"]
  meta_warnings,   \* plan["meta"]["warnings"], None when absent
  scene_segments,  \* scene_map["segments"]
  broll_catalog,   \* the B-roll catalog, or None
  sfx_catalog,     \* the SFX catalog, or None
  motion_rules,    \* the motion rules, or None
  plan_segment,    \* the segment passed to aggregate_scene_for_segment
  scene_summary,   \* the SceneSummary (or None) returned by it
  seg_index,       \* enrich_plan: the index of the next segment of its loop
  assigned_motion, \* enrich_plan: assigned_motion
  cta_candidates,  \* enrich_plan: cta_candidates
  warnings,        \* the warnings returned by enrich_plan / compute_timing_warnings
  seg_before,      \* history: the segments when the current pass began
  hl_before,       \* history: the highlights when the latest pass began
  scene_cued,      \* history: the segments given a motionCue by the scene-driven pass
  runs,            \* history: how many times the pass under test has run
  phrase_in,       \* the arguments of a call of select_keyword_phrase
  phrase_out,      \* what the call returned
  srt_entries,     \* the subtitle blocks of the SRT file, in file order
  timeline,        \* the timeline of the overlay catalog
  injected,        \* the highlights the latest synthesis pass returned
  passes,          \* history: the passes of the run that have returned, in order
  motion_steps,    \* history: the loop states of the latest ensure_motion_from_highlights
  broll_call,      \* the arguments of a call of select_broll and what it returned
  sfx_attached,    \* history: per highlight, the sfx and gain ensure_highlight_sfx gave it
  broll_steps      \* history: the loop states of ensure_broll_from_highlights

vars == <<pc, segments, highlights, meta_warnings, scene_segments, broll_catalog, sfx_catalog,
          motion_rules, plan_segment, scene_summary, seg_index, assigned_motion,
          cta_candidates, warnings, seg_before, hl_before, scene_cued, runs,
          phrase_in, phrase_out, srt_entries, timeline, injected, passes,
          motion_steps, broll_call, sfx_attached, broll_steps>>

\* An absent string-valued field.
None == "None"

\* An absent number-valued field (a time, a gain): times in the model are >= 0.
Missing == 0 - 1

\* F applied to the value of e: the value is named once and used as often as needed.
With(e, F(_)) == F(e)

\* An optional record or list: Nil when absent (Python's None), Some(x) otherwise.
Nil == <<>>
Some(x) == <<x>>
Get(o) == o[1]

Max(a, b) == IF a >= b THEN a ELSE b
Min(a, b) == IF a <= b THEN a ELSE b

RECURSIVE SeqSum(_)
SeqSum(s) == IF s = <<>> THEN 0 ELSE Head(s) + SeqSum(Tail(s))

Take(s, n) == SubSeq(s, 1, Min(n, Len(s)))

InSeq(x, s) == \E i \in 1..Len(s) : s[i] = x

SeqToSet(s) == {s[i] : i \in 1..Len(s)}

\* All sequences over S of length lo..hi.
SeqsOf(S, lo, hi) == UNION {[1..n -> S] : n \in lo..hi}

(***************************************************************************)
(* Spelling of the strings whose characters the code inspects.             *)
(***************************************************************************)
Lexicon ==
  {<<"", <<>>>>,
   <<"zoom-in", <<"z","o","o","m","-","i","n">>>>,
   <<"Zoom Out", <<"Z","o","o","m"," ","O","u","t">>>>,
   <<" slide_up ", <<" ","s","l","i","d","e","_","u","p"," ">>>>,
   <<"zoomIn", <<"z","o","o","m","I","n">>>>,
   <<"zoomOut", <<"z","o","o","m","O","u","t">>>>,
   <<"slideUp", <<"s","l","i","d","e","U","p">>>>,
   <<"pan", <<"p","a","n">>>>,
   <<"Marketing", <<"M","a","r","k","e","t","i","n","g">>>>,
   <<"marketing", <<"m","a","r","k","e","t","i","n","g">>>>,
   <<"strategy", <<"s","t","r","a","t","e","g","y">>>>,
   <<"SEO", <<"S","E","O">>>>,
   <<"seo", <<"s","e","o">>>>,
   <<"calm", <<"c","a","l","m">>>>,
   <<"cta", <<"c","t","a">>>>,
   <<"applause", <<"a","p","p","l","a","u","s","e">>>>,
   <<"pop", <<"p","o","p">>>>,
   <<"applause_big", <<"a","p","p","l","a","u","s","e","_","b","i","g">>>>,
   <<"hl-1", <<"h","l","-","1">>>>,
   <<"cta_subscribe", <<"c","t","a","_","s","u","b","s","c","r","i","b","e">>>>,
   <<"assets/sfx/", <<"a","s","s","e","t","s","/","s","f","x","/">>>>,
   <<"ui", <<"u","i">>>>,
   <<"emotion", <<"e","m","o","t","i","o","n">>>>,
   <<"assets/sfx/emotion/applause_big", <<"a","s","s","e","t","s","/","s","f","x","/","e","m","o","t","i","o","n","/","a","p","p","l","a","u","s","e","_","b","i","g">>>>,
   <<"Outro-CTA", <<"O","u","t","r","o","-","C","T","A">>>>,
   <<"whoosh", <<"w","h","o","o","s","h">>>>,
   <<"analytics", <<"a","n","a","l","y","t","i","c","s">>>>,
   <<"audience", <<"a","u","d","i","e","n","c","e">>>>,
   <<"authority", <<"a","u","t","h","o","r","i","t","y">>>>,
   <<"b2b", <<"b","2","b">>>>,
   <<"b2c", <<"b","2","c">>>>,
   <<"blog", <<"b","l","o","g">>>>,
   <<"bounce", <<"b","o","u","n","c","e">>>>,
   <<"brand awareness", <<"b","r","a","n","d"," ","a","w","a","r","e","n","e","s","s">>>>,
   <<"business owner", <<"b","u","s","i","n","e","s","s"," ","o","w","n","e","r">>>>,
   <<"business to business", <<"b","u","s","i","n","e","s","s"," ","t","o"," ","b","u","s","i","n","e","s","s">>>>,
   <<"business to consumer", <<"b","u","s","i","n","e","s","s"," ","t","o"," ","c","o","n","s","u","m","e","r">>>>,
   <<"career", <<"c","a","r","e","e","r">>>>,
   <<"client", <<"c","l","i","e","n","t">>>>,
   <<"clientele", <<"c","l","i","e","n","t","e","l","e">>>>,
   <<"clients", <<"c","l","i","e","n","t","s">>>>,
   <<"company", <<"c","o","m","p","a","n","y">>>>,
   <<"consistency", <<"c","o","n","s","i","s","t","e","n","c","y">>>>,
   <<"consistent", <<"c","o","n","s","i","s","t","e","n","t">>>>,
   <<"content", <<"c","o","n","t","e","n","t">>>>,
   <<"course", <<"c","o","u","r","s","e">>>>,
   <<"credibility", <<"c","r","e","d","i","b","i","l","i","t","y">>>>,
   <<"customer", <<"c","u","s","t","o","m","e","r">>>>,
   <<"data", <<"d","a","t","a">>>>,
   <<"day one", <<"d","a","y"," ","o","n","e">>>>,
   <<"digital marketing", <<"d","i","g","i","t","a","l"," ","m","a","r","k","e","t","i","n","g">>>>,
   <<"direct response", <<"d","i","r","e","c","t"," ","r","e","s","p","o","n","s","e">>>>,
   <<"education", <<"e","d","u","c","a","t","i","o","n">>>>,
   <<"email campaigns", <<"e","m","a","i","l"," ","c","a","m","p","a","i","g","n","s">>>>,
   <<"email marketing", <<"e","m","a","i","l"," ","m","a","r","k","e","t","i","n","g">>>>,
   <<"expert", <<"e","x","p","e","r","t">>>>,
   <<"facebook", <<"f","a","c","e","b","o","o","k">>>>,
   <<"fade", <<"f","a","d","e">>>>,
   <<"family", <<"f","a","m","i","l","y">>>>,
   <<"favorite memory", <<"f","a","v","o","r","i","t","e"," ","m","e","m","o","r","y">>>>,
   <<"favourite memory", <<"f","a","v","o","u","r","i","t","e"," ","m","e","m","o","r","y">>>>,
   <<"framework", <<"f","r","a","m","e","w","o","r","k">>>>,
   <<"friendships", <<"f","r","i","e","n","d","s","h","i","p","s">>>>,
   <<"google ads", <<"g","o","o","g","l","e"," ","a","d","s">>>>,
   <<"grandkids", <<"g","r","a","n","d","k","i","d","s">>>>,
   <<"growth", <<"g","r","o","w","t","h">>>>,
   <<"heartwarming", <<"h","e","a","r","t","w","a","r","m","i","n","g">>>>,
   <<"high school", <<"h","i","g","h"," ","s","c","h","o","o","l">>>>,
   <<"honest", <<"h","o","n","e","s","t">>>>,
   <<"industry", <<"i","n","d","u","s","t","r","y">>>>,
   <<"insights", <<"i","n","s","i","g","h","t","s">>>>,
   <<"instagram", <<"i","n","s","t","a","g","r","a","m">>>>,
   <<"job", <<"j","o","b">>>>,
   <<"landing page", <<"l","a","n","d","i","n","g"," ","p","a","g","e">>>>,
   <<"learning", <<"l","e","a","r","n","i","n","g">>>>,
   <<"linkedin", <<"l","i","n","k","e","d","i","n">>>>,
   <<"loyal", <<"l","o","y","a","l">>>>,
   <<"loyal clients", <<"l","o","y","a","l"," ","c","l","i","e","n","t","s">>>>,
   <<"loyalty", <<"l","o","y","a","l","t","y">>>>,
   <<"mail room", <<"m","a","i","l"," ","r","o","o","m">>>>,
   <<"mailroom", <<"m","a","i","l","r","o","o","m">>>>,
   <<"memory", <<"m","e","m","o","r","y">>>>,
   <<"metrics", <<"m","e","t","r","i","c","s">>>>,
   <<"online marketing", <<"o","n","l","i","n","e"," ","m","a","r","k","e","t","i","n","g">>>>,
   <<"organic", <<"o","r","g","a","n","i","c">>>>,
   <<"paid", <<"p","a","i","d">>>>,
   <<"paid ads", <<"p","a","i","d"," ","a","d","s">>>>,
   <<"partnership", <<"p","a","r","t","n","e","r","s","h","i","p">>>>,
   <<"plan", <<"p","l","a","n">>>>,
   <<"post", <<"p","o","s","t">>>>,
   <<"ppc", <<"p","p","c">>>>,
   <<"products", <<"p","r","o","d","u","c","t","s">>>>,
   <<"promotion", <<"p","r","o","m","o","t","i","o","n">>>>,
   <<"pulse", <<"p","u","l","s","e">>>>,
   <<"relationship", <<"r","e","l","a","t","i","o","n","s","h","i","p">>>>,
   <<"relationships", <<"r","e","l","a","t","i","o","n","s","h","i","p","s">>>>,
   <<"search engine optimization", <<"s","e","a","r","c","h"," ","e","n","g","i","n","e"," ","o","p","t","i","m","i","z","a","t","i","o","n">>>>,
   <<"segmentation", <<"s","e","g","m","e","n","t","a","t","i","o","n">>>>,
   <<"services", <<"s","e","r","v","i","c","e","s">>>>,
   <<"social media", <<"s","o","c","i","a","l"," ","m","e","d","i","a">>>>,
   <<"specialise", <<"s","p","e","c","i","a","l","i","s","e">>>>,
   <<"still with", <<"s","t","i","l","l"," ","w","i","t","h">>>>,
   <<"sweet", <<"s","w","e","e","t">>>>,
   <<"sweetheart", <<"s","w","e","e","t","h","e","a","r","t">>>>,
   <<"sweethearts", <<"s","w","e","e","t","h","e","a","r","t","s">>>>,
   <<"tactics", <<"t","a","c","t","i","c","s">>>>,
   <<"target", <<"t","a","r","g","e","t">>>>,
   <<"training", <<"t","r","a","i","n","i","n","g">>>>,
   <<"video", <<"v","i","d","e","o">>>>,
   <<"web optimization", <<"w","e","b"," ","o","p","t","i","m","i","z","a","t","i","o","n">>>>,
   <<"website", <<"w","e","b","s","i","t","e">>>>,
   <<"zoom", <<"z","o","o","m">>>>,
   <<"MARKETING", <<"M","A","R","K","E","T","I","N","G">>>>,
   <<"DIGITAL MARKETING", <<"D","I","G","I","T","A","L"," ","M","A","R","K","E","T","I","N","G">>>>,
   <<"ONLINE MARKETING", <<"O","N","L","I","N","E"," ","M","A","R","K","E","T","I","N","G">>>>,
   <<"STRATEGY", <<"S","T","R","A","T","E","G","Y">>>>,
   <<"HELLO", <<"H","E","L","L","O">>>>,
   <<"TOP 5", <<"T","O","P"," ","5">>>>,
   <<"LOYAL CLIENTS", <<"L","O","Y","A","L"," ","C","L","I","E","N","T","S">>>>,
   <<"overview", <<"o","v","e","r","v","i","e","w">>>>,
   <<"OVERVIEW", <<"O","V","E","R","V","I","E","W">>>>,
   <<"&", <<"&">>>>,
   <<"ACTUALLY", <<"A","C","T","U","A","L","L","Y">>>>,
   <<"AHEAD", <<"A","H","E","A","D">>>>,
   <<"ALWAYS", <<"A","L","W","A","Y","S">>>>,
   <<"AND", <<"A","N","D">>>>,
   <<"ANSWER", <<"A","N","S","W","E","R">>>>,
   <<"ANYBODY", <<"A","N","Y","B","O","D","Y">>>>,
   <<"ANYONE", <<"A","N","Y","O","N","E">>>>,
   <<"ANYTHING", <<"A","N","Y","T","H","I","N","G">>>>,
   <<"ASK", <<"A","S","K">>>>,
   <<"ASKED", <<"A","S","K","E","D">>>>,
   <<"ASKING", <<"A","S","K","I","N","G">>>>,
   <<"AWAY", <<"A","W","A","Y">>>>,
   <<"AWESOME", <<"A","W","E","S","O","M","E">>>>,
   <<"BACK", <<"B","A","C","K">>>>,
   <<"BALANCED", <<"B","A","L","A","N","C","E","D">>>>,
   <<"BASICALLY", <<"B","A","S","I","C","A","L","L","Y">>>>,
   <<"BEGINNING", <<"B","E","G","I","N","N","I","N","G">>>>,
   <<"BOTTOM", <<"B","O","T","T","O","M">>>>,
   <<"BUILDING", <<"B","U","I","L","D","I","N","G">>>>,
   <<"CAMERA", <<"C","A","M","E","R","A">>>>,
   <<"CAN", <<"C","A","N">>>>,
   <<"CANT", <<"C","A","N","T">>>>,
   <<"COME", <<"C","O","M","E">>>>,
   <<"DAY", <<"D","A","Y">>>>,
   <<"DIDNT", <<"D","I","D","N","T">>>>,
   <<"DO", <<"D","O">>>>,
   <<"DOING", <<"D","O","I","N","G">>>>,
   <<"DON", <<"D","O","N">>>>,
   <<"DONT", <<"D","O","N","T">>>>,
   <<"ELSE", <<"E","L","S","E">>>>,
   <<"EVEN", <<"E","V","E","N">>>>,
   <<"EVERYONE", <<"E","V","E","R","Y","O","N","E">>>>,
   <<"EVERYTHING", <<"E","V","E","R","Y","T","H","I","N","G">>>>,
   <<"FACT", <<"F","A","C","T">>>>,
   <<"FEEL", <<"F","E","E","L">>>>,
   <<"FINE", <<"F","I","N","E">>>>,
   <<"FIRST", <<"F","I","R","S","T">>>>,
   <<"FOR", <<"F","O","R">>>>,
   <<"FORWARD", <<"F","O","R","W","A","R","D">>>>,
   <<"FREE", <<"F","R","E","E">>>>,
   <<"GET", <<"G","E","T">>>>,
   <<"GIVE", <<"G","I","V","E">>>>,
   <<"GIVING", <<"G","I","V","I","N","G">>>>,
   <<"GO", <<"G","O">>>>,
   <<"GOING", <<"G","O","I","N","G">>>>,
   <<"GONNA", <<"G","O","N","N","A">>>>,
   <<"GOT", <<"G","O","T">>>>,
   <<"GROW", <<"G","R","O","W">>>>,
   <<"HAPPY", <<"H","A","P","P","Y">>>>,
   <<"HE", <<"H","E">>>>,
   <<"HELPED", <<"H","E","L","P","E","D">>>>,
   <<"HER", <<"H","E","R">>>>,
   <<"HERS", <<"H","E","R","S">>>>,
   <<"HES", <<"H","E","S">>>>,
   <<"HIM", <<"H","I","M">>>>,
   <<"HIS", <<"H","I","S">>>>,
   <<"HOME", <<"H","O","M","E">>>>,
   <<"HOURS", <<"H","O","U","R","S">>>>,
   <<"I", <<"I">>>>,
   <<"IM", <<"I","M">>>>,
   <<"IN", <<"I","N">>>>,
   <<"INDUSTRY", <<"I","N","D","U","S","T","R","Y">>>>,
   <<"INTERVIEWS", <<"I","N","T","E","R","V","I","E","W","S">>>>,
   <<"IT", <<"I","T">>>>,
   <<"ITS", <<"I","T","S">>>>,
   <<"IVE", <<"I","V","E">>>>,
   <<"JIM", <<"J","I","M">>>>,
   <<"JUST", <<"J","U","S","T">>>>,
   <<"KIND", <<"K","I","N","D">>>>,
   <<"KNOW", <<"K","N","O","W">>>>,
   <<"LATE", <<"L","A","T","E">>>>,
   <<"LIKE", <<"L","I","K","E">>>>,
   <<"LONG", <<"L","O","N","G">>>>,
   <<"LOOK", <<"L","O","O","K">>>>,
   <<"LOOKING", <<"L","O","O","K","I","N","G">>>>,
   <<"LOOKS", <<"L","O","O","K","S">>>>,
   <<"LOT", <<"L","O","T">>>>,
   <<"MADE", <<"M","A","D","E">>>>,
   <<"MAKE", <<"M","A","K","E">>>>,
   <<"ME", <<"M","E">>>>,
   <<"MEAN", <<"M","E","A","N">>>>,
   <<"MEANS", <<"M","E","A","N","S">>>>,
   <<"MEANT", <<"M","E","A","N","T">>>>,
   <<"MESSAGE", <<"M","E","S","S","A","G","E">>>>,
   <<"MIGHT", <<"M","I","G","H","T">>>>,
   <<"MINE", <<"M","I","N","E">>>>,
   <<"MORNING", <<"M","O","R","N","I","N","G">>>>,
   <<"MY", <<"M","Y">>>>,
   <<"NEED", <<"N","E","E","D">>>>,
   <<"NEEDS", <<"N","E","E","D","S">>>>,
   <<"NEXT", <<"N","E","X","T">>>>,
   <<"OF", <<"O","F">>>>,
   <<"OK", <<"O","K">>>>,
   <<"OKAY", <<"O","K","A","Y">>>>,
   <<"ON", <<"O","N">>>>,
   <<"ONE", <<"O","N","E">>>>,
   <<"OUR", <<"O","U","R">>>>,
   <<"OURS", <<"O","U","R","S">>>>,
   <<"PART", <<"P","A","R","T">>>>,
   <<"PICK", <<"P","I","C","K">>>>,
   <<"PRETTY", <<"P","R","E","T","T","Y">>>>,
   <<"QUESTION", <<"Q","U","E","S","T","I","O","N">>>>,
   <<"QUESTIONS", <<"Q","U","E","S","T","I","O","N","S">>>>,
   <<"REALLY", <<"R","E","A","L","L","Y">>>>,
   <<"RIGHT", <<"R","I","G","H","T">>>>,
   <<"S", <<"S">>>>,
   <<"SAID", <<"S","A","I","D">>>>,
   <<"SAY", <<"S","A","Y">>>>,
   <<"SAYED", <<"S","A","Y","E","D">>>>,
   <<"SAYING", <<"S","A","Y","I","N","G">>>>,
   <<"SAYS", <<"S","A","Y","S">>>>,
   <<"SCREW", <<"S","C","R","E","W">>>>,
   <<"SECOND", <<"S","E","C","O","N","D">>>>,
   <<"SEE", <<"S","E","E">>>>,
   <<"SEES", <<"S","E","E","S">>>>,
   <<"SHE", <<"S","H","E">>>>,
   <<"SHES", <<"S","H","E","S">>>>,
   <<"SIT", <<"S","I","T">>>>,
   <<"SIX", <<"S","I","X">>>>,
   <<"SLEEP", <<"S","L","E","E","P">>>>,
   <<"SOMEHOW", <<"S","O","M","E","H","O","W">>>>,
   <<"SOMETHING", <<"S","O","M","E","T","H","I","N","G">>>>,
   <<"SORRY", <<"S","O","R","R","Y">>>>,
   <<"SPARK", <<"S","P","A","R","K">>>>,
   <<"SPEND", <<"S","P","E","N","D">>>>,
   <<"STARTED", <<"S","T","A","R","T","E","D">>>>,
   <<"STUFF", <<"S","T","U","F","F">>>>,
   <<"SURE", <<"S","U","R","E">>>>,
   <<"TAKE", <<"T","A","K","E">>>>,
   <<"TAKEN", <<"T","A","K","E","N">>>>,
   <<"TAKES", <<"T","A","K","E","S">>>>,
   <<"THEIR", <<"T","H","E","I","R">>>>,
   <<"THEIRS", <<"T","H","E","I","R","S">>>>,
   <<"THEM", <<"T","H","E","M">>>>,
   <<"THEY", <<"T","H","E","Y">>>>,
   <<"THEYRE", <<"T","H","E","Y","R","E">>>>,
   <<"THING", <<"T","H","I","N","G">>>>,
   <<"THINGS", <<"T","H","I","N","G","S">>>>,
   <<"THINK", <<"T","H","I","N","K">>>>,
   <<"THIRD", <<"T","H","I","R","D">>>>,
   <<"THREE", <<"T","H","R","E","E">>>>,
   <<"TIME", <<"T","I","M","E">>>>,
   <<"TO", <<"T","O">>>>,
   <<"TOUGH", <<"T","O","U","G","H">>>>,
   <<"TRIES", <<"T","R","I","E","S">>>>,
   <<"TRY", <<"T","R","Y">>>>,
   <<"TRYING", <<"T","R","Y","I","N","G">>>>,
   <<"TWO", <<"T","W","O">>>>,
   <<"US", <<"U","S">>>>,
   <<"VERSUS", <<"V","E","R","S","U","S">>>>,
   <<"VS", <<"V","S">>>>,
   <<"WANNA", <<"W","A","N","N","A">>>>,
   <<"WANT", <<"W","A","N","T">>>>,
   <<"WE", <<"W","E">>>>,
   <<"WELL", <<"W","E","L","L">>>>,
   <<"WEVE", <<"W","E","V","E">>>>,
   <<"WINDING", <<"W","I","N","D","I","N","G">>>>,
   <<"WITH", <<"W","I","T","H">>>>,
   <<"WORD", <<"W","O","R","D">>>>,
   <<"WORDS", <<"W","O","R","D","S">>>>,
   <<"YOU", <<"Y","O","U">>>>,
   <<"YOUR", <<"Y","O","U","R">>>>,
   <<"YOURE", <<"Y","O","U","R","E">>>>,
   <<"YOURS", <<"Y","O","U","R","S">>>>,
   <<"a", <<"a">>>>,
   <<"about", <<"a","b","o","u","t">>>>,
   <<"after", <<"a","f","t","e","r">>>>,
   <<"again", <<"a","g","a","i","n">>>>,
   <<"against", <<"a","g","a","i","n","s","t">>>>,
   <<"ah", <<"a","h">>>>,
   <<"ahead", <<"a","h","e","a","d">>>>,
   <<"ai", <<"a","i">>>>,
   <<"all", <<"a","l","l">>>>,
   <<"allow", <<"a","l","l","o","w">>>>,
   <<"allowing", <<"a","l","l","o","w","i","n","g">>>>,
   <<"allows", <<"a","l","l","o","w","s">>>>,
   <<"already", <<"a","l","r","e","a","d","y">>>>,
   <<"alright", <<"a","l","r","i","g","h","t">>>>,
   <<"am", <<"a","m">>>>,
   <<"an", <<"a","n">>>>,
   <<"and", <<"a","n","d">>>>,
   <<"any", <<"a","n","y">>>>,
   <<"are", <<"a","r","e">>>>,
   <<"as", <<"a","s">>>>,
   <<"at", <<"a","t">>>>,
   <<"be", <<"b","e">>>>,
   <<"because", <<"b","e","c","a","u","s","e">>>>,
   <<"been", <<"b","e","e","n">>>>,
   <<"before", <<"b","e","f","o","r","e">>>>,
   <<"being", <<"b","e","i","n","g">>>>,
   <<"but", <<"b","u","t">>>>,
   <<"by", <<"b","y">>>>,
   <<"bye", <<"b","y","e">>>>,
   <<"can", <<"c","a","n">>>>,
   <<"catch", <<"c","a","t","c","h">>>>,
   <<"catches", <<"c","a","t","c","h","e","s">>>>,
   <<"catching", <<"c","a","t","c","h","i","n","g">>>>,
   <<"could", <<"c","o","u","l","d">>>>,
   <<"did", <<"d","i","d">>>>,
   <<"discuss", <<"d","i","s","c","u","s","s">>>>,
   <<"discusses", <<"d","i","s","c","u","s","s","e","s">>>>,
   <<"discussing", <<"d","i","s","c","u","s","s","i","n","g">>>>,
   <<"do", <<"d","o">>>>,
   <<"does", <<"d","o","e","s">>>>,
   <<"doing", <<"d","o","i","n","g">>>>,
   <<"down", <<"d","o","w","n">>>>,
   <<"during", <<"d","u","r","i","n","g">>>>,
   <<"each", <<"e","a","c","h">>>>,
   <<"ebv", <<"e","b","v">>>>,
   <<"er", <<"e","r">>>>,
   <<"explain", <<"e","x","p","l","a","i","n">>>>,
   <<"explaining", <<"e","x","p","l","a","i","n","i","n","g">>>>,
   <<"explains", <<"e","x","p","l","a","i","n","s">>>>,
   <<"feel", <<"f","e","e","l">>>>,
   <<"feeling", <<"f","e","e","l","i","n","g">>>>,
   <<"feels", <<"f","e","e","l","s">>>>,
   <<"few", <<"f","e","w">>>>,
   <<"for", <<"f","o","r">>>>,
   <<"from", <<"f","r","o","m">>>>,
   <<"further", <<"f","u","r","t","h","e","r">>>>,
   <<"get", <<"g","e","t">>>>,
   <<"gets", <<"g","e","t","s">>>>,
   <<"getting", <<"g","e","t","t","i","n","g">>>>,
   <<"give", <<"g","i","v","e">>>>,
   <<"gives", <<"g","i","v","e","s">>>>,
   <<"giving", <<"g","i","v","i","n","g">>>>,
   <<"gonna", <<"g","o","n","n","a">>>>,
   <<"goodbye", <<"g","o","o","d","b","y","e">>>>,
   <<"had", <<"h","a","d">>>>,
   <<"has", <<"h","a","s">>>>,
   <<"have", <<"h","a","v","e">>>>,
   <<"having", <<"h","a","v","i","n","g">>>>,
   <<"he", <<"h","e">>>>,
   <<"her", <<"h","e","r">>>>,
   <<"here", <<"h","e","r","e">>>>,
   <<"hers", <<"h","e","r","s">>>>,
   <<"herself", <<"h","e","r","s","e","l","f">>>>,
   <<"hes", <<"h","e","s">>>>,
   <<"him", <<"h","i","m">>>>,
   <<"himself", <<"h","i","m","s","e","l","f">>>>,
   <<"his", <<"h","i","s">>>>,
   <<"hmm", <<"h","m","m">>>>,
   <<"how", <<"h","o","w">>>>,
   <<"huh", <<"h","u","h">>>>,
   <<"i", <<"i">>>>,
   <<"i hope you enjoyed", <<"i"," ","h","o","p","e"," ","y","o","u"," ","e","n","j","o","y","e","d">>>>,
   <<"if", <<"i","f">>>>,
   <<"im", <<"i","m">>>>,
   <<"in", <<"i","n">>>>,
   <<"interact", <<"i","n","t","e","r","a","c","t">>>>,
   <<"interacting", <<"i","n","t","e","r","a","c","t","i","n","g">>>>,
   <<"interacts", <<"i","n","t","e","r","a","c","t","s">>>>,
   <<"into", <<"i","n","t","o">>>>,
   <<"is", <<"i","s">>>>,
   <<"it", <<"i","t">>>>,
   <<"its", <<"i","t","s">>>>,
   <<"itself", <<"i","t","s","e","l","f">>>>,
   <<"ive", <<"i","v","e">>>>,
   <<"just", <<"j","u","s","t">>>>,
   <<"keep", <<"k","e","e","p">>>>,
   <<"keeping", <<"k","e","e","p","i","n","g">>>>,
   <<"keeps", <<"k","e","e","p","s">>>>,
   <<"know", <<"k","n","o","w">>>>,
   <<"knowing", <<"k","n","o","w","i","n","g">>>>,
   <<"knows", <<"k","n","o","w","s">>>>,
   <<"let", <<"l","e","t">>>>,
   <<"lets", <<"l","e","t","s">>>>,
   <<"letting", <<"l","e","t","t","i","n","g">>>>,
   <<"look", <<"l","o","o","k">>>>,
   <<"looking", <<"l","o","o","k","i","n","g">>>>,
   <<"looks", <<"l","o","o","k","s">>>>,
   <<"made", <<"m","a","d","e">>>>,
   <<"make", <<"m","a","k","e">>>>,
   <<"makes", <<"m","a","k","e","s">>>>,
   <<"making", <<"m","a","k","i","n","g">>>>,
   <<"may", <<"m","a","y">>>>,
   <<"maybe", <<"m","a","y","b","e">>>>,
   <<"me", <<"m","e">>>>,
   <<"might", <<"m","i","g","h","t">>>>,
   <<"more", <<"m","o","r","e">>>>,
   <<"most", <<"m","o","s","t">>>>,
   <<"ms", <<"m","s">>>>,
   <<"my", <<"m","y">>>>,
   <<"myself", <<"m","y","s","e","l","f">>>>,
   <<"need", <<"n","e","e","d">>>>,
   <<"needing", <<"n","e","e","d","i","n","g">>>>,
   <<"needs", <<"n","e","e","d","s">>>>,
   <<"no", <<"n","o">>>>,
   <<"nope", <<"n","o","p","e">>>>,
   <<"nor", <<"n","o","r">>>>,
   <<"not", <<"n","o","t">>>>,
   <<"now", <<"n","o","w">>>>,
   <<"of", <<"o","f">>>>,
   <<"off", <<"o","f","f">>>>,
   <<"oh", <<"o","h">>>>,
   <<"ok", <<"o","k">>>>,
   <<"okay", <<"o","k","a","y">>>>,
   <<"on", <<"o","n">>>>,
   <<"once", <<"o","n","c","e">>>>,
   <<"only", <<"o","n","l","y">>>>,
   <<"or", <<"o","r">>>>,
   <<"other", <<"o","t","h","e","r">>>>,
   <<"our", <<"o","u","r">>>>,
   <<"ours", <<"o","u","r","s">>>>,
   <<"ourselves", <<"o","u","r","s","e","l","v","e","s">>>>,
   <<"out", <<"o","u","t">>>>,
   <<"over", <<"o","v","e","r">>>>,
   <<"own", <<"o","w","n">>>>,
   <<"same", <<"s","a","m","e">>>>,
   <<"say", <<"s","a","y">>>>,
   <<"saying", <<"s","a","y","i","n","g">>>>,
   <<"says", <<"s","a","y","s">>>>,
   <<"see", <<"s","e","e">>>>,
   <<"see you in the next", <<"s","e","e"," ","y","o","u"," ","i","n"," ","t","h","e"," ","n","e","x","t">>>>,
   <<"see you next", <<"s","e","e"," ","y","o","u"," ","n","e","x","t">>>>,
   <<"seeing", <<"s","e","e","i","n","g">>>>,
   <<"sees", <<"s","e","e","s">>>>,
   <<"she", <<"s","h","e">>>>,
   <<"shes", <<"s","h","e","s">>>>,
   <<"should", <<"s","h","o","u","l","d">>>>,
   <<"so", <<"s","o">>>>,
   <<"some", <<"s","o","m","e">>>>,
   <<"stand", <<"s","t","a","n","d">>>>,
   <<"standing", <<"s","t","a","n","d","i","n","g">>>>,
   <<"stands", <<"s","t","a","n","d","s">>>>,
   <<"such", <<"s","u","c","h">>>>,
   <<"take", <<"t","a","k","e">>>>,
   <<"takes", <<"t","a","k","e","s">>>>,
   <<"taking", <<"t","a","k","i","n","g">>>>,
   <<"talk", <<"t","a","l","k">>>>,
   <<"talking", <<"t","a","l","k","i","n","g">>>>,
   <<"talks", <<"t","a","l","k","s">>>>,
   <<"tell", <<"t","e","l","l">>>>,
   <<"telling", <<"t","e","l","l","i","n","g">>>>,
   <<"tells", <<"t","e","l","l","s">>>>,
   <<"than", <<"t","h","a","n">>>>,
   <<"thank you for watching", <<"t","h","a","n","k"," ","y","o","u"," ","f","o","r"," ","w","a","t","c","h","i","n","g">>>>,
   <<"thanks for watching", <<"t","h","a","n","k","s"," ","f","o","r"," ","w","a","t","c","h","i","n","g">>>>,
   <<"that", <<"t","h","a","t">>>>,
   <<"thats", <<"t","h","a","t","s">>>>,
   <<"the", <<"t","h","e">>>>,
   <<"their", <<"t","h","e","i","r">>>>,
   <<"theirs", <<"t","h","e","i","r","s">>>>,
   <<"them", <<"t","h","e","m">>>>,
   <<"themselves", <<"t","h","e","m","s","e","l","v","e","s">>>>,
   <<"then", <<"t","h","e","n">>>>,
   <<"there", <<"t","h","e","r","e">>>>,
   <<"theres", <<"t","h","e","r","e","s">>>>,
   <<"these", <<"t","h","e","s","e">>>>,
   <<"they", <<"t","h","e","y">>>>,
   <<"theyre", <<"t","h","e","y","r","e">>>>,
   <<"think", <<"t","h","i","n","k">>>>,
   <<"thinking", <<"t","h","i","n","k","i","n","g">>>>,
   <<"thinks", <<"t","h","i","n","k","s">>>>,
   <<"this", <<"t","h","i","s">>>>,
   <<"those", <<"t","h","o","s","e">>>>,
   <<"through", <<"t","h","r","o","u","g","h">>>>,
   <<"to", <<"t","o">>>>,
   <<"today", <<"t","o","d","a","y">>>>,
   <<"tonight", <<"t","o","n","i","g","h","t">>>>,
   <<"too", <<"t","o","o">>>>,
   <<"uh", <<"u","h">>>>,
   <<"uhh", <<"u","h","h">>>>,
   <<"um", <<"u","m">>>>,
   <<"umm", <<"u","m","m">>>>,
   <<"under", <<"u","n","d","e","r">>>>,
   <<"until", <<"u","n","t","i","l">>>>,
   <<"up", <<"u","p">>>>,
   <<"very", <<"v","e","r","y">>>>,
   <<"wanna", <<"w","a","n","n","a">>>>,
   <<"want", <<"w","a","n","t">>>>,
   <<"wanting", <<"w","a","n","t","i","n","g">>>>,
   <<"wants", <<"w","a","n","t","s">>>>,
   <<"was", <<"w","a","s">>>>,
   <<"watch", <<"w","a","t","c","h">>>>,
   <<"watches", <<"w","a","t","c","h","e","s">>>>,
   <<"watching", <<"w","a","t","c","h","i","n","g">>>>,
   <<"we", <<"w","e">>>>,
   <<"were", <<"w","e","r","e">>>>,
   <<"weve", <<"w","e","v","e">>>>,
   <<"what", <<"w","h","a","t">>>>,
   <<"whats", <<"w","h","a","t","s">>>>,
   <<"when", <<"w","h","e","n">>>>,
   <<"where", <<"w","h","e","r","e">>>>,
   <<"which", <<"w","h","i","c","h">>>>,
   <<"while", <<"w","h","i","l","e">>>>,
   <<"who", <<"w","h","o">>>>,
   <<"whom", <<"w","h","o","m">>>>,
   <<"why", <<"w","h","y">>>>,
   <<"will", <<"w","i","l","l">>>>,
   <<"with", <<"w","i","t","h">>>>,
   <<"would", <<"w","o","u","l","d">>>>,
   <<"yeah", <<"y","e","a","h">>>>,
   <<"yep", <<"y","e","p">>>>,
   <<"you", <<"y","o","u">>>>,
   <<"your", <<"y","o","u","r">>>>,
   <<"youre", <<"y","o","u","r","e">>>>,
   <<"yours", <<"y","o","u","r","s">>>>,
   <<"yourself", <<"y","o","u","r","s","e","l","f">>>>,
   <<"yourselves", <<"y","o","u","r","s","e","l","v","e","s">>>>,
   <<"timetable", <<"t","i","m","e","t","a","b","l","e">>>>,
   <<"um the thing", <<"u","m"," ","t","h","e"," ","t","h","i","n","g">>>>,
   <<"first one", <<"f","i","r","s","t"," ","o","n","e">>>>,
   <<"marketing funnel", <<"m","a","r","k","e","t","i","n","g"," ","f","u","n","n","e","l">>>>,
   <<"Epstein-Barr virus", <<"E","p","s","t","e","i","n","-","B","a","r","r"," ","v","i","r","u","s">>>>,
   <<"go'blin", <<"g","o","'","b","l","i","n">>>>,
   <<"apples versus oranges", <<"a","p","p","l","e","s"," ","v","e","r","s","u","s"," ","o","r","a","n","g","e","s">>>>,
   <<"it's the one", <<"i","t","'","s"," ","t","h","e"," ","o","n","e">>>>,
   <<"AI", <<"A","I">>>>,
   <<"the first one", <<"t","h","e"," ","f","i","r","s","t"," ","o","n","e">>>>,
   <<"go'go'go'go'go'go'go'go'go'go'go'go'go'goblin", <<"g","o","'","g","o","'","g","o","'","g","o","'","g","o","'","g","o","'","g","o","'","g","o","'","g","o","'","g","o","'","g","o","'","g","o","'","g","o","'","g","o","b","l","i","n">>>>,
   <<"Loyal clients, and friends!", <<"L","o","y","a","l"," ","c","l","i","e","n","t","s",","," ","a","n","d"," ","f","r","i","e","n","d","s","!">>>>,
   <<"srt-", <<"s","r","t","-">>>>,
   <<"srt-0001", <<"s","r","t","-","0","0","0","1">>>>,
   <<"srt-0002", <<"s","r","t","-","0","0","0","2">>>>,
   <<"srt-0003", <<"s","r","t","-","0","0","0","3">>>>,
   <<"srt-0004", <<"s","r","t","-","0","0","0","4">>>>,
   <<"epstein-barr", <<"e","p","s","t","e","i","n","-","b","a","r","r">>>>,
   <<"32", <<"3","2">>>>,
   <<"kissing", <<"k","i","s","s","i","n","g">>>>,
   <<"didn't know what caused", <<"d","i","d","n","'","t"," ","k","n","o","w"," ","w","h","a","t"," ","c","a","u","s","e","d">>>>,
   <<"10 million", <<"1","0"," ","m","i","l","l","i","o","n">>>>,
   <<"20 year", <<"2","0"," ","y","e","a","r">>>>,
   <<"direct link", <<"d","i","r","e","c","t"," ","l","i","n","k">>>>,
   <<"multiple sclerosis", <<"m","u","l","t","i","p","l","e"," ","s","c","l","e","r","o","s","i","s">>>>,
   <<"EPSTEIN-BARR VIRUS", <<"E","P","S","T","E","I","N","-","B","A","R","R"," ","V","I","R","U","S">>>>,
   <<"32X MS RISK", <<"3","2","X"," ","M","S"," ","R","I","S","K">>>>,
   <<"THE KISSING DISEASE", <<"T","H","E"," ","K","I","S","S","I","N","G"," ","D","I","S","E","A","S","E">>>>,
   <<"MONONUCLEOSIS", <<"M","O","N","O","N","U","C","L","E","O","S","I","S">>>>,
   <<"UNKNOWN CAUSE", <<"U","N","K","N","O","W","N"," ","C","A","U","S","E">>>>,
   <<"HARD TO TREAT", <<"H","A","R","D"," ","T","O"," ","T","R","E","A","T">>>>,
   <<"10 MILLION PEOPLE", <<"1","0"," ","M","I","L","L","I","O","N"," ","P","E","O","P","L","E">>>>,
   <<"20 YEARS", <<"2","0"," ","Y","E","A","R","S">>>>,
   <<"DIRECT LINK: EBV ? MS", <<"D","I","R","E","C","T"," ","L","I","N","K",":"," ","E","B","V"," ","?"," ","M","S">>>>,
   <<"versus", <<"v","e","r","s","u","s">>>>,
   <<"vs", <<"v","s">>>>,
   <<"kb-", <<"k","b","-">>>>,
   <<"primary", <<"p","r","i","m","a","r","y">>>>,
   <<"Epstein virus", <<"E","p","s","t","e","i","n"," ","v","i","r","u","s">>>>,
   <<"EPSTEIN VIRUS", <<"E","P","S","T","E","I","N"," ","V","I","R","U","S">>>>,
   <<"MARKETING FUNNEL", <<"M","A","R","K","E","T","I","N","G"," ","F","U","N","N","E","L">>>>,
   <<"TIMETABLE", <<"T","I","M","E","T","A","B","L","E">>>>,
   <<"FRIENDS", <<"F","R","I","E","N","D","S">>>>,
   <<"APPLES VERSUS", <<"A","P","P","L","E","S"," ","V","E","R","S","U","S">>>>,
   <<"APPLES", <<"A","P","P","L","E","S">>>>,
   <<"ORANGES", <<"O","R","A","N","G","E","S">>>>,
   <<"LOYAL", <<"L","O","Y","A","L">>>>,
   <<"kb-000-00", <<"k","b","-","0","0","0","-","0","0">>>>,
   <<"kb-000-01", <<"k","b","-","0","0","0","-","0","1">>>>,
   <<"kb-001-00", <<"k","b","-","0","0","1","-","0","0">>>>,
   <<"kb-001-01", <<"k","b","-","0","0","1","-","0","1">>>>,
   <<"kb-002-00", <<"k","b","-","0","0","2","-","0","0">>>>,
   <<"kb-002-01", <<"k","b","-","0","0","2","-","0","1">>>>,
   <<"assets/sfx/emotion/applause.mp3", <<"a","s","s","e","t","s","/","s","f","x","/","e","m","o","t","i","o","n","/","a","p","p","l","a","u","s","e",".","m","p","3">>>>,
   <<"assets/sfx/ui/pop.mp3", <<"a","s","s","e","t","s","/","s","f","x","/","u","i","/","p","o","p",".","m","p","3">>>>,
   <<"assets/sfx/emphasis/ding.mp3", <<"a","s","s","e","t","s","/","s","f","x","/","e","m","p","h","a","s","i","s","/","d","i","n","g",".","m","p","3">>>>,
   <<"assets/sfx/ui/bubble-pop.mp3", <<"a","s","s","e","t","s","/","s","f","x","/","u","i","/","b","u","b","b","l","e","-","p","o","p",".","m","p","3">>>>,
   <<"Dang ky kenh de nhan video moi!", <<"D","a","n","g"," ","k","y"," ","k","e","n","h"," ","d","e"," ","n","h","a","n"," ","v","i","d","e","o"," ","m","o","i","!">>>>,
   <<"dang ky kenh de nhan video moi!", <<"d","a","n","g"," ","k","y"," ","k","e","n","h"," ","d","e"," ","n","h","a","n"," ","v","i","d","e","o"," ","m","o","i","!">>>>,
   <<"hl-2", <<"h","l","-","2">>>>,
   <<"float", <<"f","l","o","a","t">>>>,
   <<"marketing funnel and timetable", <<"m","a","r","k","e","t","i","n","g"," ","f","u","n","n","e","l"," ","a","n","d"," ","t","i","m","e","t","a","b","l","e">>>>,
   <<"data_visualization", <<"d","a","t","a","_","v","i","s","u","a","l","i","z","a","t","i","o","n">>>>,
   <<"team_collaboration", <<"t","e","a","m","_","c","o","l","l","a","b","o","r","a","t","i","o","n">>>>,
   <<"image", <<"i","m","a","g","e">>>>,
   <<"portrait", <<"p","o","r","t","r","a","i","t">>>>,
   <<"slide up", <<"s","l","i","d","e"," ","u","p">>>>,
   <<"Shake", <<"S","h","a","k","e">>>>,
   <<"shake", <<"s","h","a","k","e">>>>,
   <<"HONEST", <<"H","O","N","E","S","T">>>>,
   <<"mute", <<"m","u","t","e">>>>,
   <<"accent", <<"a","c","c","e","n","t">>>>,
   <<"auto", <<"a","u","t","o">>>>,
   <<"srt-0005", <<"s","r","t","-","0","0","0","5">>>>,
   <<"srt-0006", <<"s","r","t","-","0","0","0","6">>>>,
   <<"Marketing funnel!", <<"M","a","r","k","e","t","i","n","g"," ","f","u","n","n","e","l","!">>>>,
   <<"5 STEP OVERVIEW", <<"5"," ","S","T","E","P"," ","O","V","E","R","V","I","E","W">>>>}

Spelling == With(Lexicon, LAMBDA L : [s \in {p[1] : p \in L} |-> (CHOOSE p \in L : p[1] = s)[2]])

Spell(s) == Spelling[s]

\* The string with the given spelling (an error when the lexicon lacks it).
Intern(chars) == With(Spelling, LAMBDA S : CHOOSE s \in DOMAIN S : S[s] = chars)

LowerLetters == <<"a","b","c","d","e","f","g","h","i","j","k","l","m",
                  "n","o","p","q","r","s","t","u","v","w","x","y","z">>
UpperLetters == <<"A","B","C","D","E","F","G","H","I","J","K","L","M",
                  "N","O","P","Q","R","S","T","U","V","W","X","Y","Z">>
Digits == {"0","1","2","3","4","5","6","7","8","9"}

IsLower(c) == \E i \in 1..26 : LowerLetters[i] = c
IsUpper(c) == \E i \in 1..26 : UpperLetters[i] = c
IsLetter(c) == IsLower(c) \/ IsUpper(c)

LowerChar(c) == IF IsUpper(c) THEN LowerLetters[CHOOSE i \in 1..26 : UpperLetters[i] = c] ELSE c
UpperChar(c) == IF IsLower(c) THEN UpperLetters[CHOOSE i \in 1..26 : LowerLetters[i] = c] ELSE c

LowerChars(cs) == [i \in 1..Len(cs) |-> LowerChar(cs[i])]
UpperChars(cs) == [i \in 1..Len(cs) |-> UpperChar(cs[i])]

\* str.title(): a letter is upper-cased after a non-letter, lower-cased after a letter.
TitleChars(cs) ==
  [i \in 1..Len(cs) |->
     IF i = 1 \/ ~IsLetter(cs[i - 1]) THEN UpperChar(cs[i]) ELSE LowerChar(cs[i])]

\* str.strip() of blanks.
RECURSIVE LStrip(_)
LStrip(cs) == IF cs # <<>> /\ Head(cs) = " " THEN LStrip(Tail(cs)) ELSE cs
RECURSIVE RStrip(_)
RStrip(cs) == IF cs # <<>> /\ cs[Len(cs)] = " " THEN RStrip(SubSeq(cs, 1, Len(cs) - 1)) ELSE cs
Strip(cs) == RStrip(LStrip(cs))

ReplaceChar(cs, from, to) == [i \in 1..Len(cs) |-> IF cs[i] = from THEN to ELSE cs[i]]

\* str.split(sep) for a one-character separator, empty parts dropped.
RECURSIVE SplitParts(_, _, _)
SplitParts(cs, sep, cur) ==
  IF cs = <<>> THEN (IF cur = <<>> THEN <<>> ELSE <<cur>>)
  ELSE IF Head(cs) = sep
       THEN (IF cur = <<>> THEN <<>> ELSE <<cur>>) \o SplitParts(Tail(cs), sep, <<>>)
       ELSE SplitParts(Tail(cs), sep, Append(cur, Head(cs)))

RECURSIVE Concat(_)
Concat(parts) == IF parts = <<>> THEN <<>> ELSE Head(parts) \o Concat(Tail(parts))

camel_case_motion(name) ==
  LET normalized == LowerChars(ReplaceChar(ReplaceChar(Strip(Spell(name)), "-", "_"), " ", "_"))
      parts == SplitParts(normalized, "_", <<>>)
  IN IF parts = <<>> THEN ""
     ELSE Intern(Head(parts) \o Concat([i \in 1..(Len(parts) - 1) |-> TitleChars(parts[i + 1])]))

(***************************************************************************)
(* Scene aggregation                                                       *)
(***************************************************************************)
overlap_seconds(a_start, a_end, b_start, b_end) ==
  Max(0, Min(a_end, b_end) - Max(a_start, b_start))

\* collections.Counter: the keys in first-seen order, each with its count.
RECURSIVE CounterUpdate(_, _)
CounterUpdate(c, xs) ==
  IF xs = <<>> THEN c
  ELSE LET x == Head(xs)
           c2 == IF \E i \in 1..Len(c) : c[i].k = x
                 THEN [i \in 1..Len(c) |-> IF c[i].k = x THEN [k |-> x, n |-> c[i].n + 1] ELSE c[i]]
                 ELSE Append(c, [k |-> x, n |-> 1])
       IN CounterUpdate(c2, Tail(xs))

RECURSIVE InsertByCount(_, _)
InsertByCount(sorted, e) ==
  IF sorted = <<>> THEN <<e>>
  ELSE IF Head(sorted).n >= e.n THEN <<Head(sorted)>> \o InsertByCount(Tail(sorted), e)
       ELSE <<e>> \o sorted

RECURSIVE SortByCount(_, _)
SortByCount(c, acc) == IF c = <<>> THEN acc ELSE SortByCount(Tail(c), InsertByCount(acc, Head(c)))

\* Counter.most_common(n): by count descending, ties in first-seen order.
most_common(c, n) ==
  LET s == Take(SortByCount(c, <<>>), n) IN [i \in 1..Len(s) |-> s[i].k]

RECURSIVE AddMotionCandidates(_, _)
AddMotionCandidates(motion_candidates, cands) ==
  IF cands = <<>> THEN motion_candidates
  ELSE LET motion_name == camel_case_motion(Head(cands))
       IN AddMotionCandidates(
            IF motion_name # "" /\ ~InSeq(motion_name, motion_candidates)
            THEN Append(motion_candidates, motion_name) ELSE motion_candidates,
            Tail(cands))

EmptyAggregate ==
  [topics_counter |-> <<>>, motion_candidates |-> <<>>, tokens_counter |-> <<>>,
   sfx_hints_counter |-> <<>>, highlight_score_total |-> 0, total_weight |-> 0,
   texts |-> <<>>, cta_flag |-> FALSE]

\* Mutant: the loop without `if weight <= 0: continue`.
AggregateScene_NoSkip(acc, start, end, scene) ==
  LET weight == overlap_seconds(start, end, scene.start, scene.end)
  IN [topics_counter |-> CounterUpdate(acc.topics_counter, scene.topics),
      motion_candidates |-> AddMotionCandidates(acc.motion_candidates, scene.motionCandidates),
      tokens_counter |-> CounterUpdate(acc.tokens_counter, scene.tokens),
      sfx_hints_counter |-> CounterUpdate(acc.sfx_hints_counter, scene.sfxHints),
      highlight_score_total |-> acc.highlight_score_total + scene.highlightScore * weight,
      total_weight |-> acc.total_weight + weight,
      texts |-> IF scene.textOneLine # "" THEN Append(acc.texts, scene.textOneLine) ELSE acc.texts,
      cta_flag |-> acc.cta_flag \/ scene.cta]

\* One iteration of the loop over scene_segments.
AggregateScene(acc, start, end, scene) ==
  LET weight == overlap_seconds(start, end, scene.start, scene.end)
  IN IF weight <= 0 THEN acc
     ELSE [topics_counter |-> CounterUpdate(acc.topics_counter, scene.topics),
           motion_candidates |-> AddMotionCandidates(acc.motion_candidates, scene.motionCandidates),
           tokens_counter |-> CounterUpdate(acc.tokens_counter, scene.tokens),
           sfx_hints_counter |-> CounterUpdate(acc.sfx_hints_counter, scene.sfxHints),
           highlight_score_total |-> acc.highlight_score_total + scene.highlightScore * weight,
           total_weight |-> acc.total_weight + weight,
           texts |-> IF scene.textOneLine # "" THEN Append(acc.texts, scene.textOneLine) ELSE acc.texts,
           cta_flag |-> acc.cta_flag \/ scene.cta]

RECURSIVE AggregateLoop(_, _, _, _)
AggregateLoop(acc, start, end, scenes) ==
  IF scenes = <<>> THEN acc
  ELSE AggregateLoop(AggregateScene(acc, start, end, Head(scenes)), start, end, Tail(scenes))

\* The summary built from the accumulated values.
SummaryOf(start, end, acc, den) ==
  [start |-> start,
   end |-> end,
   topics |-> most_common(acc.topics_counter, 6),
   highlight_score |-> [num |-> acc.highlight_score_total, den |-> den],
   motion_candidates |-> acc.motion_candidates,
   tokens |-> most_common(acc.tokens_counter, 24),
   text |-> acc.texts,
   cta |-> acc.cta_flag,
   sfx_hints |-> most_common(acc.sfx_hints_counter, 8)]

\* Mutant: without `if total_weight == 0: return None` (the average is then 0.0).
aggregate_scene_for_segment_NoZeroCheck(seg, scenes) ==
  With(seg.sourceStart, LAMBDA start :
  With(start + seg.duration, LAMBDA end :
  With(AggregateLoop(EmptyAggregate, start, end, scenes), LAMBDA acc :
    IF end <= start THEN Nil
    ELSE Some(SummaryOf(start, end, acc, IF acc.total_weight = 0 THEN 1 ELSE acc.total_weight)))))

aggregate_scene_for_segment(seg, scenes) ==
  With(seg.sourceStart, LAMBDA start :
  With(start + seg.duration, LAMBDA end :
  With(AggregateLoop(EmptyAggregate, start, end, scenes), LAMBDA acc :
    IF end <= start THEN Nil
    ELSE IF acc.total_weight = 0 THEN Nil
    ELSE Some(SummaryOf(start, end, acc, acc.total_weight)))))

\* SceneSummary.duration
SceneDuration(scene) == Max(0, scene.end - scene.start)

\* highlight_score >= t and highlight_score < t, t in tenths, on the exact fraction.
ScoreGE(hs, t) == hs.num >= t * hs.den
ScoreLT(hs, t) == hs.num < t * hs.den

(***************************************************************************)
(* B-roll selection (scene-driven)                                         *)
(***************************************************************************)
Lower(s) == Intern(LowerChars(Spell(s)))

LowerAll(xs) == {Lower(xs[i]) : i \in 1..Len(xs)}

\* The score of one catalog item for a scene, in tenths.
score_broll_item(item, scene) ==
  LET topic_overlap == LowerAll(item.topics) \cap LowerAll(scene.topics)
      token_hits == SeqToSet(scene.tokens) \cap LowerAll(item.keywords)
  IN 25 * Cardinality(topic_overlap)
     + 10 * Cardinality(token_hits)
     + (IF ScoreGE(scene.highlight_score, 7) /\ item.mood # <<>> THEN 4 ELSE 0)
     + (IF item.mediaType = "video" THEN 3 ELSE 0)
     + (IF item.orientation = "landscape" THEN 1 ELSE 0)

\* The loop keeping the best item: a later item replaces it only with a strictly higher score.
RECURSIVE BestBroll(_, _, _)
BestBroll(items, scene, best) ==
  IF items = <<>> THEN best
  ELSE With(score_broll_item(Head(items), scene), LAMBDA score :
            BestBroll(Tail(items), scene,
                      IF score > best.score THEN [item |-> Some(Head(items)), score |-> score]
                      ELSE best))

select_broll(scene, catalog, threshold) ==
  With(SelectSeq(catalog.items, LAMBDA item : item.duration * 10 >= SceneDuration(scene) * 8),
       LAMBDA filtered_items :
  With(BestBroll(filtered_items, scene, [item |-> Nil, score |-> 0]), LAMBDA best :
    IF catalog.items = <<>> \/ filtered_items = <<>> THEN Nil
    ELSE IF best.item = Nil \/ best.score < threshold \/ ScoreLT(scene.highlight_score, 6) THEN Nil
    ELSE Some([id |-> Get(best.item).id, file |-> Get(best.item).file, confidence |-> best.score])))

(***************************************************************************)
(* Motion cue selection (scene-driven)                                     *)
(***************************************************************************)
CeilDiv(a, b) == (a + b - 1) \div b

\* The motion rules are a dict whose keys may be absent (Nil).
EmptyRules == [motion_frequency |-> Nil, highlight_rate |-> Nil, zoom_out_keywords |-> Nil]

\* dict.get(key, default)
RuleGet(rules, key, default) == IF rules[key] = Nil THEN default ELSE Get(rules[key])

\* The truth value of the optional dict: None and {} are false.
RulesGiven(rules) == rules # Nil /\ Get(rules) # EmptyRules

\* `motion_rules or {}`
RulesOrEmpty(rules) == IF rules = Nil THEN EmptyRules ELSE Get(rules)

select_motion_cue(scene, rules, assigned_so_far, total_segments) ==
  LET frequency == RuleGet(rules, "motion_frequency", 0)
      max_segments == IF frequency > 0 THEN CeilDiv(total_segments * frequency, 10) ELSE total_segments
  IN IF assigned_so_far >= max_segments THEN None
     ELSE IF scene.motion_candidates # <<>> THEN scene.motion_candidates[1]
     ELSE IF ScoreGE(scene.highlight_score, RuleGet(rules, "highlight_rate", 0)) THEN "zoomIn"
     ELSE IF ScoreGE(scene.highlight_score, 4) /\ SceneDuration(scene) > 5000 THEN "pan"
     ELSE IF ScoreLT(scene.highlight_score, 4) /\ SceneDuration(scene) > 3000 THEN "zoomOut"
     ELSE None

(***************************************************************************)
(* Rounding, highlights, the CTA highlight                                 *)
(***************************************************************************)
\* round(x, 2) of x milliseconds, x >= 0.  A value half way between two multiples of
\* 10 ms is a decimal that binary floating point does not hold exactly, so the stored
\* value lies just below or just above it and either neighbour can be the result:
\* round(0.635, 2) is 0.64, round(1.005, 2) is 1.0.
Round2Set(x) ==
  LET r == x % 10
  IN IF r < 5 THEN {x - r} ELSE IF r > 5 THEN {x - r + 10} ELSE {x - 5, x + 5}

BlankHighlight ==
  [id |-> None, type |-> None, start |-> Missing, duration |-> Missing, position |-> None,
   layout |-> None, importance |-> None, text |-> None, keyword |-> None,
   supportingTexts |-> [topLeft |-> None, topRight |-> None],
   animation |-> None, variant |-> None, sfx |-> None,
   gain |-> Missing, volume |-> Missing, audio |-> None,
   showBottom |-> FALSE, safeBottom |-> Missing, safeInsetHorizontal |-> Missing,
   staggerLeft |-> Missing, staggerRight |-> Missing]

\* Substring search on spellings: `needle in hay`.
ContainsChars(hay, needle) ==
  \E i \in 0..(Len(hay) - Len(needle)) : SubSeq(hay, i + 1, i + Len(needle)) = needle

Contains(hay, needle) == ContainsChars(Spell(hay), Spell(needle))

\* Mutant: only the type marker is looked at.
LooksLikeCta_TypeOnly(h) == h.type = "cta"

\* "cta" in (h.get("id") or "").lower() or h.get("type") == "cta"
LooksLikeCta(h) ==
  \/ ContainsChars(LowerChars(Spell(IF h.id = None THEN "" ELSE h.id)), Spell("cta"))
  \/ h.type = "cta"

HasCtaHighlight(hl) == \E i \in 1..Len(hl) : LooksLikeCta(hl[i])

DEFAULT_APPLAUSE == "assets/sfx/emotion/applause.mp3"

\* The first item of a category whose id contains "applause": its file, or the path
\* built from the category and item ids.
RECURSIVE ApplauseInItems(_, _)
ApplauseInItems(category, items) ==
  IF items = <<>> THEN None
  ELSE IF Contains(Head(items).id, "applause")
       THEN (IF Head(items).file # None THEN Head(items).file
             ELSE Intern(Spell("assets/sfx/") \o Spell(category.id) \o <<"/">> \o Spell(Head(items).id)))
  ELSE ApplauseInItems(category, Tail(items))

RECURSIVE ApplauseInCategories(_)
ApplauseInCategories(categories) ==
  IF categories = <<>> THEN None
  ELSE With(ApplauseInItems(Head(categories), Head(categories).items), LAMBDA found :
            IF found # None THEN found ELSE ApplauseInCategories(Tail(categories)))

ApplauseSfx(catalog) ==
  IF catalog = Nil THEN None ELSE ApplauseInCategories(Get(catalog).categories)

\* The highlight lists ensure_cta_highlight can leave (one per rounding outcome).
\* A candidate is the pair (segment, scene summary) of a cta-flagged segment.
ensure_cta_highlight(hl, candidates, catalog) ==
  IF HasCtaHighlight(hl) THEN {hl}
  ELSE IF candidates = <<>> THEN {hl}
  ELSE With(candidates[Len(candidates)].segment, LAMBDA segment :
       With(Max(candidates[Len(candidates)].scene.start, segment.sourceStart), LAMBDA start :
       With(Max(2500, Min(5000, segment.duration)), LAMBDA duration :
       With(Max(start, start + segment.duration - 3000), LAMBDA highlight_start :
       With(ApplauseSfx(catalog), LAMBDA applause_sfx :
         {Append(hl, [BlankHighlight EXCEPT
                        !.id = "cta_subscribe",
                        !.type = "sectionTitle",
                        !.text = "Dang ky kenh de nhan video moi!",
                        !.start = s,
                        !.duration = d,
                        !.position = "center",
                        !.animation = "float",
                        !.variant = "brand",
                        !.sfx = IF applause_sfx # None THEN applause_sfx ELSE DEFAULT_APPLAUSE,
                        !.volume = 7])
           : s \in Round2Set(highlight_start), d \in Round2Set(duration)})))))

(***************************************************************************)
(* Timing validation                                                       *)
(***************************************************************************)
TOLERANCE == 50

\* Mutant: the comparisons include the tolerance itself.
PairWarning_Inclusive(prev, current, tolerance) ==
  LET prev_end == prev.sourceStart + prev.duration
      gap == current.sourceStart - prev_end
  IN IF gap >= tolerance THEN <<[kind |-> "Gap", seconds |-> gap, prev |-> prev.id, current |-> current.id]>>
     ELSE IF gap <= -tolerance THEN <<[kind |-> "Overlap", seconds |-> -gap, prev |-> prev.id, current |-> current.id]>>
     ELSE <<>>

\* The warning, if any, for one consecutive pair.
PairWarning(prev, current, tolerance) ==
  LET prev_end == prev.sourceStart + prev.duration
      gap == current.sourceStart - prev_end
  IN IF gap > tolerance THEN <<[kind |-> "Gap", seconds |-> gap, prev |-> prev.id, current |-> current.id]>>
     ELSE IF gap < -tolerance THEN <<[kind |-> "Overlap", seconds |-> -gap, prev |-> prev.id, current |-> current.id]>>
     ELSE <<>>

RECURSIVE compute_timing_warnings(_, _)
compute_timing_warnings(segs, tolerance) ==
  IF Len(segs) < 2 THEN <<>>
  ELSE PairWarning(segs[1], segs[2], tolerance) \o compute_timing_warnings(Tail(segs), tolerance)

(***************************************************************************)
(* enrich_plan: the scene-driven first pass, the CTA ensurer, the timing   *)
(* validator.                                                              *)
(***************************************************************************)
BROLL_THRESHOLD == 15

\* The truth value of an optional catalog: None is false (so is {}, which the model
\* does not tell from None).
CatalogGiven(catalog) == catalog # Nil

Note(text, arg) == [note |-> text, arg |-> arg]

NOTE_SKIPPED == Note("No matching scene metadata; skipped B-roll and motion cue.", None)

\* The body of the loop over segments for a segment that has an aggregate:
\* the segment as left, the motion cue given (or None), whether it is a CTA candidate.
EnrichWithScene(segment, summary, catalog, rules, assigned, total_segments) ==
  With(IF CatalogGiven(catalog) THEN select_broll(summary, Get(catalog), BROLL_THRESHOLD) ELSE Nil,
       LAMBDA broll :
  With(IF ~CatalogGiven(catalog) THEN <<>>
       ELSE IF broll # Nil THEN <<Note("B-roll assigned", Get(broll).id)>>
       ELSE <<Note("No B-roll match above threshold.", None)>>,
       LAMBDA broll_notes :
  With(IF RulesGiven(rules) THEN select_motion_cue(summary, Get(rules), assigned, total_segments)
       ELSE None,
       LAMBDA motion_cue :
  With(IF motion_cue # None THEN <<Note("Motion cue assigned", motion_cue)>> ELSE <<>>,
       LAMBDA motion_notes :
  With(summary.sfx_hints # <<>> /\ segment.sfxHints = Nil, LAMBDA hints :
  With(IF hints THEN <<Note("SFX hints propagated", None)>> ELSE <<>>, LAMBDA sfx_notes :
    [segment |->
       [segment EXCEPT
          !.kind = IF @ = None THEN "normal" ELSE @,
          !.broll = IF broll # Nil
                    THEN Some([id |-> Get(broll).id, file |-> Get(broll).file, mode |-> "full",
                               confidence |-> Get(broll).confidence])
                    ELSE @,
          !.motionCue = IF motion_cue # None THEN motion_cue ELSE @,
          !.sfxHints = IF hints THEN Some(summary.sfx_hints) ELSE @,
          !.notes = @ \o broll_notes \o motion_notes \o sfx_notes],
     motion_cue |-> motion_cue,
     cta |-> summary.cta]))))))

\* A number-valued field holding a value float() rejects (None, a text that is no
\* number): float(value) raises TypeError or ValueError.
NotNumeric == 0 - 1000000

FloatRaises(value) == value = NotNumeric

\* aggregate_scene_for_segment raises: float() of the segment's sourceStart or duration,
\* or, for a segment with end > start, float() of a scene record's start or end, or of
\* the highlightScore of a record that overlaps the segment.
AggregateRaises(segment, scenes) ==
  \/ FloatRaises(segment.sourceStart)
  \/ FloatRaises(segment.duration)
  \/ /\ segment.duration > 0
     /\ \E i \in 1..Len(scenes) :
          \/ FloatRaises(scenes[i].start)
          \/ FloatRaises(scenes[i].end)
          \/ /\ overlap_seconds(segment.sourceStart, segment.sourceStart + segment.duration,
                                 scenes[i].start, scenes[i].end) > 0
             /\ FloatRaises(scenes[i].highlightScore)

\* One iteration of `for segment in segments`.  An exception of the aggregator is
\* caught nowhere: it ends enrich_plan and the run.
EnrichSegment ==
  /\ pc = "enrich_loop"
  /\ seg_index <= Len(segments)
  /\ IF AggregateRaises(segments[seg_index], scene_segments)
     THEN /\ pc' = "raised"
          /\ segments' = [segments EXCEPT ![seg_index].kind = IF @ = None THEN "normal" ELSE @]
          /\ UNCHANGED <<assigned_motion, cta_candidates, scene_cued>>
     ELSE
     /\ pc' = pc
     /\ \E summary \in {aggregate_scene_for_segment(segments[seg_index], scene_segments)} :
       IF summary = Nil
          THEN /\ segments' = [segments EXCEPT ![seg_index] =
                                 [@ EXCEPT !.kind = IF @ = None THEN "normal" ELSE @,
                                           !.notes = Append(@, NOTE_SKIPPED)]]
               /\ UNCHANGED <<assigned_motion, cta_candidates, scene_cued>>
          ELSE \E done \in {EnrichWithScene(segments[seg_index], Get(summary), broll_catalog,
                                            motion_rules, assigned_motion, Len(segments))} :
                 /\ segments' = [segments EXCEPT ![seg_index] = done.segment]
                 /\ assigned_motion' = IF done.motion_cue # None THEN assigned_motion + 1
                                       ELSE assigned_motion
                 /\ scene_cued' = IF done.motion_cue # None THEN scene_cued \cup {seg_index}
                                  ELSE scene_cued
                 /\ cta_candidates' = IF done.cta
                                      THEN Append(cta_candidates,
                                                  [index |-> seg_index, segment |-> done.segment,
                                                   scene |-> Get(summary)])
                                      ELSE cta_candidates
  /\ seg_index' = seg_index + 1
  /\ UNCHANGED <<highlights, meta_warnings, scene_segments, broll_catalog, sfx_catalog,
                 motion_rules, plan_segment, scene_summary, warnings, seg_before, hl_before, runs,
                 phrase_in, phrase_out, srt_entries, timeline, injected, passes,
                 motion_steps, broll_call, sfx_attached, broll_steps>>

\* After the loop: ensure_cta_highlight, compute_timing_warnings, the warnings into
\* plan.meta with setdefault (an existing list is kept), return.
EnrichFinish ==
  /\ pc = "enrich_loop"
  /\ seg_index > Len(segments)
  /\ highlights' \in ensure_cta_highlight(highlights, cta_candidates, sfx_catalog)
  /\ warnings' = compute_timing_warnings(segments, TOLERANCE)
  /\ meta_warnings' = IF warnings' # <<>> /\ meta_warnings = Nil THEN Some(warnings') ELSE meta_warnings
  /\ passes' = passes \o <<"scene_pass", "ensure_cta_highlight", "compute_timing_warnings">>
  /\ pc' = "catalog"
  /\ UNCHANGED <<segments, scene_segments, broll_catalog, sfx_catalog, motion_rules,
                 plan_segment, scene_summary, seg_index, assigned_motion, cta_candidates,
                 seg_before, hl_before, scene_cued, runs,
                 phrase_in, phrase_out, srt_entries, timeline, injected,
                 motion_steps, broll_call, sfx_attached, broll_steps>>

(***************************************************************************)
(* The highlight-driven B-roll and motion passes                           *)
(***************************************************************************)
MAX_BROLL_REUSE == 2

BROLL_RULES ==
  <<[keywords |-> {"digital marketing", "marketing", "online marketing"}, id |-> "marketing_automation"],
    [keywords |-> {"framework", "plan", "strategy", "tactics"}, id |-> "business_strategy"],
    [keywords |-> {"search engine optimization", "seo"}, id |-> "data_visualization"],
    [keywords |-> {"facebook", "instagram", "linkedin", "social media"}, id |-> "digital_network"],
    [keywords |-> {"google ads", "paid ads", "ppc"}, id |-> "data_visualization"],
    [keywords |-> {"email campaigns", "email marketing"}, id |-> "digital_network"],
    [keywords |-> {"landing page", "web optimization", "website"}, id |-> "digital_transformation"],
    [keywords |-> {"audience", "customer", "segmentation", "target"}, id |-> "ai_brain"],
    [keywords |-> {"course", "education", "learning", "training"}, id |-> "education_training"],
    [keywords |-> {"career", "growth", "job", "specialise"}, id |-> "modern_office"],
    [keywords |-> {"authority", "credibility", "expert"}, id |-> "innovation_lightbulb"],
    [keywords |-> {"analytics", "data", "insights", "metrics"}, id |-> "data_visualization"],
    [keywords |-> {"blog", "content", "post", "video"}, id |-> "digital_network"],
    [keywords |-> {"organic", "paid", "promotion"}, id |-> "data_visualization"],
    [keywords |-> {"brand awareness", "direct response"}, id |-> "business_strategy"],
    [keywords |-> {"products", "services"}, id |-> "modern_office"],
    [keywords |-> {"b2b", "b2c", "business to business", "business to consumer"}, id |-> "business_strategy"],
    [keywords |-> {"loyal", "loyal clients", "loyalty"}, id |-> "handshake_success"],
    [keywords |-> {"heartwarming", "honest", "sweet"}, id |-> "celebration_success"],
    [keywords |-> {"family", "favorite memory", "favourite memory", "grandkids", "memory"}, id |-> "celebration_success"],
    [keywords |-> {"high school", "sweetheart", "sweethearts"}, id |-> "training_workshop"],
    [keywords |-> {"client", "clientele", "clients"}, id |-> "teamwork_meeting"],
    [keywords |-> {"day one", "partnership", "still with"}, id |-> "modern_office"],
    [keywords |-> {"friendships", "relationship", "relationships"}, id |-> "startup_team"],
    [keywords |-> {"consistency", "consistent"}, id |-> "office_motion"],
    [keywords |-> {"mail room", "mailroom"}, id |-> "modern_office"],
    [keywords |-> {"business owner", "company", "industry"}, id |-> "modern_office"]>>

BROLL_NOTES == {"handshake_success", "celebration_success", "training_workshop", "teamwork_meeting", "modern_office", "startup_team", "office_motion"}

BROLL_REASONS == {"handshake_success", "celebration_success", "training_workshop", "teamwork_meeting", "modern_office", "startup_team", "office_motion"}

MOTION_ZOOM_IN_KEYWORDS ==
  {"client", "clientele", "clients", "consistency", "consistent", "favorite memory", "favourite memory", "honest", "loyal", "loyalty", "memory", "relationship", "relationships", "sweet", "sweetheart", "sweethearts"}

MOTION_ANIMATION_HINTS == {"bounce", "fade", "pulse", "zoom"}

ALLOWED_MOTIONS == {"zoomIn", "zoomOut"}

\* " ".join(filter(None, parts)) on spellings
RECURSIVE JoinChars(_)
JoinChars(parts) ==
  IF parts = <<>> THEN <<>>
  ELSE IF Len(parts) = 1 THEN parts[1]
  ELSE parts[1] \o <<" ">> \o JoinChars(Tail(parts))

\* The keyword and the supporting texts of a highlight, the empty ones dropped.
HighlightTextParts(h) ==
  SelectSeq(<<Spell(IF h.keyword = None THEN "" ELSE h.keyword),
              Spell(IF h.supportingTexts.topLeft = None THEN "" ELSE h.supportingTexts.topLeft),
              Spell(IF h.supportingTexts.topRight = None THEN "" ELSE h.supportingTexts.topRight)>>,
            LAMBDA cs : cs # <<>>)

\* The first rule one of whose keywords occurs in the lowered text; None without one.
match_broll_id(text) ==
  LET lowered == LowerChars(text)
      hits == {r \in 1..Len(BROLL_RULES) :
                 \E keyword \in BROLL_RULES[r].keywords : ContainsChars(lowered, Spell(keyword))}
  IN IF hits = {} THEN None
     ELSE BROLL_RULES[CHOOSE r \in hits : \A q \in hits : r <= q].id

\* The index of the first segment with start <= timecode <= end; 0 without one.
locate_segment(segs, timecode) ==
  LET found == {i \in 1..Len(segs) :
                  segs[i].sourceStart <= timecode
                  /\ timecode <= segs[i].sourceStart + segs[i].duration}
  IN IF found = {} THEN 0 ELSE CHOOSE i \in found : \A j \in found : i <= j

\* {item.id: item for item in items}: the last item of an id.
CatalogItem(items, id) ==
  LET ix == {i \in 1..Len(items) : items[i].id = id}
  IN IF ix = {} THEN Nil ELSE Some(items[CHOOSE i \in ix : \A j \in ix : i >= j])

BrollNote(id) ==
  IF id \in BROLL_NOTES THEN Note("B-roll: (BROLL_NOTES)", id)
  ELSE Note("B-roll injected via highlight keyword", id)

\* Mutant: the reuse cap is not looked at.
BrollReuseReached_Never(assigned_counts, broll_id) == FALSE

\* assigned_counts[broll_id] >= MAX_BROLL_REUSE
BrollReuseReached(assigned_counts, broll_id) == assigned_counts[broll_id] >= MAX_BROLL_REUSE

HasBroll_Never(segment) == FALSE

\* segment.get("broll")
HasBroll(segment) == segment.broll # Nil

\* The loop over the highlights: the states of the loop (the segments), one at the
\* top of each iteration and one when the loop is left.
RECURSIVE BrollLoop(_, _, _, _, _)
BrollLoop(steps, segs, hls, items, assigned_counts) ==
  IF hls = <<>> THEN Append(steps, [segs |-> segs])
  ELSE
    LET highlight == Head(hls)
        at == IF highlight.start = Missing THEN 0 ELSE locate_segment(segs, highlight.start)
        full_text == JoinChars(HighlightTextParts(highlight))
        broll_id == match_broll_id(full_text)
        item == CatalogItem(items, broll_id)
        skip == \/ highlight.start = Missing
                \/ at = 0
                \/ HasBroll(segs[at])
                \/ full_text = <<>>
                \/ broll_id = None
                \/ BrollReuseReached(assigned_counts, broll_id)
                \/ item = Nil
        notes == SelectSeq(segs[at].notes, LAMBDA n : n.note # "No B-roll match above threshold.")
        here == Append(steps, [segs |-> segs])
    IN IF skip THEN BrollLoop(here, segs, Tail(hls), items, assigned_counts)
       ELSE BrollLoop(
              here,
              [segs EXCEPT ![at] =
                 [@ EXCEPT !.broll = Some([id |-> Get(item).id, file |-> Get(item).file,
                                           mode |-> "full", confidence |-> 30]),
                           !.notes = IF InSeq(BrollNote(broll_id), notes) THEN notes
                                     ELSE Append(notes, BrollNote(broll_id))]],
              Tail(hls), items,
              [assigned_counts EXCEPT ![broll_id] = @ + 1])

BrollIds == {BROLL_RULES[r].id : r \in 1..Len(BROLL_RULES)}

\* The loop states of a call: none when the call returns before its loop.
BrollSteps(segs, hls, catalog) ==
  IF ~CatalogGiven(catalog) \/ Get(catalog).items = <<>> \/ segs = <<>> \/ hls = <<>> THEN <<>>
  ELSE BrollLoop(<<>>, segs, hls, Get(catalog).items, [id \in BrollIds |-> 0])

\* The segments a call leaves, given its loop states.
SegmentsAfter(steps, segs) == IF steps = <<>> THEN segs ELSE steps[Len(steps)].segs

ensure_broll_from_highlights(segs, hls, catalog) ==
  SegmentsAfter(BrollSteps(segs, hls, catalog), segs)

HighlightMotion_Pan(highlight, rules, existing_cue, last_motion) == "pan"

HighlightMotion_ZoomIn(highlight, rules, existing_cue, last_motion) == "zoomIn"

\* The motion the highlight asks for.
HighlightMotion(highlight, rules, existing_cue, last_motion) ==
  LET combined_text == LowerChars(JoinChars(HighlightTextParts(highlight)))
      animation_hint == LowerChars(Spell(IF highlight.animation = None THEN "" ELSE highlight.animation))
      zoom_out_keywords == RuleGet(rules, "zoom_out_keywords", <<>>)
      zoom_out_hit == \E k \in 1..Len(zoom_out_keywords) :
                        ContainsChars(combined_text, Spell(zoom_out_keywords[k]))
      has_number == \E k \in 1..Len(combined_text) : combined_text[k] \in Digits
  IN IF highlight.importance = "primary"
     THEN IF zoom_out_hit /\ last_motion = "zoomIn" THEN "zoomOut"
          ELSE IF has_number THEN "zoomIn"
          ELSE IF last_motion = "zoomIn" THEN "zoomOut"
          ELSE "zoomIn"
     ELSE IF has_number THEN "zoomIn"
     ELSE IF \E keyword \in MOTION_ZOOM_IN_KEYWORDS : ContainsChars(combined_text, Spell(keyword))
          THEN "zoomIn"
     ELSE IF animation_hint \in {Spell(hint) : hint \in MOTION_ANIMATION_HINTS} THEN "zoomIn"
     ELSE IF zoom_out_hit THEN "zoomOut"
     ELSE IF existing_cue \in ALLOWED_MOTIONS THEN existing_cue
     ELSE IF last_motion = "zoomIn" THEN "zoomOut" ELSE "zoomIn"

\* (text or keyword or title or "").strip()
HighlightDescription(highlight) ==
  Intern(Strip(Spell(IF highlight.text # None /\ highlight.text # "" THEN highlight.text
                     ELSE IF highlight.keyword # None THEN highlight.keyword
                     ELSE "")))

MotionNote(motion, description) ==
  Note(IF motion = "zoomIn" THEN "Motion cue: zoomIn emphasises" ELSE "Motion cue: zoomOut emphasises",
       description)

\* if existing_cue: whether the loop goes on to write `motion` over the cue.
OverwritesCue(existing_cue, motion) ==
  /\ existing_cue # motion
  /\ \/ existing_cue \notin ALLOWED_MOTIONS /\ motion \in ALLOWED_MOTIONS
     \/ existing_cue \in ALLOWED_MOTIONS

NextAssigned_Always(assigned, existing_cue) == assigned + 1

\* if not existing_cue: assigned += 1
NextAssigned(assigned, existing_cue) == IF existing_cue = None THEN assigned + 1 ELSE assigned

\* The loop over the highlights: the states of the loop (the segments, assigned and
\* last_motion), one at the top of each iteration and one when the loop is left.
RECURSIVE MotionLoop(_, _, _, _, _, _, _)
MotionLoop(steps, segs, hls, rules, max_motions, assigned, last_motion) ==
  IF hls = <<>>
  THEN Append(steps, [segs |-> segs, assigned |-> assigned, last_motion |-> last_motion])
  ELSE
    LET highlight == Head(hls)
        at == IF highlight.start = Missing THEN 0 ELSE locate_segment(segs, highlight.start)
        existing_cue == segs[at].motionCue
        motion == HighlightMotion(highlight, rules, existing_cue, last_motion)
        notes == SelectSeq(segs[at].notes, LAMBDA n : n.note # "Motion cue assigned")
        note_text == MotionNote(motion, HighlightDescription(highlight))
        here == Append(steps, [segs |-> segs, assigned |-> assigned, last_motion |-> last_motion])
    IN IF at = 0 THEN MotionLoop(here, segs, Tail(hls), rules, max_motions, assigned, last_motion)
       ELSE IF assigned >= max_motions /\ existing_cue = None THEN here
       ELSE IF motion = None \/ (existing_cue # None /\ ~OverwritesCue(existing_cue, motion))
            THEN MotionLoop(here, segs, Tail(hls), rules, max_motions, assigned, last_motion)
       ELSE MotionLoop(
              here,
              [segs EXCEPT ![at] =
                 [@ EXCEPT !.motionCue = motion,
                           !.notes = IF InSeq(note_text, notes) THEN notes
                                     ELSE Append(notes, note_text)]],
              Tail(hls), rules, max_motions,
              NextAssigned(assigned, existing_cue),
              motion)

\* The loop states of a call: none when the call returns before its loop.
MotionSteps(segs, hls, motion_rules_in) ==
  LET rules == IF RulesGiven(motion_rules_in) THEN Get(motion_rules_in) ELSE EmptyRules
      max_motions == Max(1, CeilDiv(Len(segs) * RuleGet(rules, "motion_frequency", 5), 10))
      assigned == Cardinality({i \in 1..Len(segs) : segs[i].motionCue # None})
  IN IF segs = <<>> \/ hls = <<>> THEN <<>>
     ELSE MotionLoop(<<>>, segs, hls, rules, max_motions, assigned, None)

ensure_motion_from_highlights(segs, hls, motion_rules_in) ==
  SegmentsAfter(MotionSteps(segs, hls, motion_rules_in), segs)

\* main: ensure_broll_from_highlights(enriched_plan, broll_catalog)
CallBrollFromHighlights ==
  /\ pc = "broll_from_highlights"
  /\ seg_before' = segments
  /\ \E steps \in {BrollSteps(segments, highlights, broll_catalog)} :
        /\ broll_steps' = steps
        /\ segments' = SegmentsAfter(steps, segments)
  /\ passes' = passes \o <<"ensure_broll_from_highlights">>
  /\ pc' = "motion_from_highlights"
  /\ UNCHANGED <<highlights, meta_warnings, scene_segments, broll_catalog, sfx_catalog,
                 motion_rules, plan_segment, scene_summary, seg_index, assigned_motion,
                 cta_candidates, warnings, hl_before, scene_cued, runs,
                 phrase_in, phrase_out, srt_entries, timeline, injected,
                 motion_steps, broll_call, sfx_attached>>

\* main: ensure_motion_from_highlights(enriched_plan, motion_rules)
CallMotionFromHighlights ==
  /\ pc = "motion_from_highlights"
  /\ seg_before' = segments
  /\ \E steps \in {MotionSteps(segments, highlights, motion_rules)} :
        /\ motion_steps' = steps
        /\ segments' = SegmentsAfter(steps, segments)
  /\ passes' = passes \o <<"ensure_motion_from_highlights">>
  /\ pc' = "highlight_sfx"
  /\ UNCHANGED <<highlights, meta_warnings, scene_segments, broll_catalog, sfx_catalog,
                 motion_rules, plan_segment, scene_summary, seg_index, assigned_motion,
                 cta_candidates, warnings, hl_before, scene_cued, runs,
                 phrase_in, phrase_out, srt_entries, timeline, injected,
                 broll_call, sfx_attached, broll_steps>>

(***************************************************************************)
(* Keyword phrases.  Texts are spellings here; the tables are the code's.  *)
(* STOP_WORDS is DEFAULT_STOP_WORDS: the list nltk would add is not part   *)
(* of the source.  The part-of-speech tagger is an oracle: its tags, when  *)
(* a tagger is installed, are an input of the call.                        *)
(***************************************************************************)
MIN_KEYWORD_LENGTH == 3
MAX_KEYWORD_TOKENS == 2

ALLOWED_CONNECTORS ==
  {"&", "AND", "FOR", "IN", "OF", "ON", "TO", "VERSUS",
   "VS", "WITH"}

COMMON_VERB_TOKENS ==
  {"allow", "allowing", "allows", "already", "am", "are", "be", "been",
   "being", "can", "catch", "catches", "catching", "could", "did", "discuss",
   "discusses", "discussing", "do", "does", "doing", "explain", "explaining", "explains",
   "feel", "feeling", "feels", "get", "gets", "getting", "give", "gives",
   "giving", "had", "has", "have", "having", "interact", "interacting", "interacts",
   "is", "just", "keep", "keeping", "keeps", "know", "knowing", "knows",
   "let", "lets", "letting", "look", "looking", "looks", "made", "make",
   "makes", "making", "may", "maybe", "might", "need", "needing", "needs",
   "now", "say", "saying", "says", "see", "seeing", "sees", "should",
   "stand", "standing", "stands", "take", "takes", "taking", "talk", "talking",
   "talks", "tell", "telling", "tells", "think", "thinking", "thinks", "today",
   "tonight", "want", "wanting", "wants", "was", "watch", "watches", "watching",
   "were", "will", "would"}

DEFAULT_STOP_WORDS ==
  {"a", "about", "after", "again", "against", "all", "an", "and",
   "any", "are", "as", "at", "be", "because", "been", "before",
   "being", "but", "by", "did", "do", "does", "doing", "down",
   "during", "each", "few", "for", "from", "further", "gonna", "had",
   "has", "have", "having", "he", "her", "here", "hers", "herself",
   "hes", "him", "himself", "his", "how", "i", "if", "im",
   "in", "into", "is", "it", "its", "itself", "ive", "just",
   "lets", "me", "more", "most", "my", "myself", "no", "nor",
   "not", "now", "of", "off", "on", "once", "only", "or",
   "other", "our", "ours", "ourselves", "out", "over", "own", "same",
   "she", "shes", "should", "so", "some", "such", "than", "that",
   "thats", "the", "their", "theirs", "them", "themselves", "then", "there",
   "theres", "these", "they", "theyre", "this", "those", "through", "to",
   "too", "under", "until", "up", "very", "wanna", "was", "we",
   "were", "weve", "what", "whats", "when", "where", "which", "while",
   "who", "whom", "why", "with", "would", "you", "your", "youre",
   "yours", "yourself", "yourselves"}

IMPORTANT_SHORT_TOKENS ==
  {"ai", "cta", "ebv", "ms"}

BLACKLIST_PHRASES ==
  {"bye", "goodbye", "i hope you enjoyed", "see you in the next", "see you next", "thank you for watching", "thanks for watching"}

FILLER_WORDS ==
  {"ah", "ahead", "alright", "er", "hmm", "huh", "nope", "oh",
   "ok", "okay", "uh", "uhh", "um", "umm", "yeah", "yep"}

GENERIC_SKIP_TOKENS ==
  {"ACTUALLY", "AHEAD", "ALWAYS", "ANSWER", "ANYBODY", "ANYONE", "ANYTHING", "ASK",
   "ASKED", "ASKING", "AWAY", "AWESOME", "BACK", "BALANCED", "BASICALLY", "BEGINNING",
   "BOTTOM", "BUILDING", "CAMERA", "CAN", "CANT", "COME", "DAY", "DIDNT",
   "DO", "DOING", "DON", "DONT", "ELSE", "EVEN", "EVERYONE", "EVERYTHING",
   "FACT", "FEEL", "FINE", "FIRST", "FORWARD", "FREE", "GET", "GIVE",
   "GIVING", "GO", "GOING", "GONNA", "GOT", "GROW", "HAPPY", "HE",
   "HELPED", "HER", "HERS", "HES", "HIM", "HIS", "HOME", "HOURS",
   "I", "IM", "INDUSTRY", "INTERVIEWS", "IT", "ITS", "IVE", "JIM",
   "JUST", "KIND", "KNOW", "LATE", "LIKE", "LONG", "LOOK", "LOOKING",
   "LOOKS", "LOT", "MADE", "MAKE", "ME", "MEAN", "MEANS", "MEANT",
   "MESSAGE", "MIGHT", "MINE", "MORNING", "MY", "NEED", "NEEDS", "NEXT",
   "OK", "OKAY", "ONE", "OUR", "OURS", "PART", "PICK", "PRETTY",
   "QUESTION", "QUESTIONS", "REALLY", "RIGHT", "S", "SAID", "SAY", "SAYED",
   "SAYING", "SAYS", "SCREW", "SECOND", "SEE", "SEES", "SHE", "SHES",
   "SIT", "SIX", "SLEEP", "SOMEHOW", "SOMETHING", "SORRY", "SPARK", "SPEND",
   "STARTED", "STUFF", "SURE", "TAKE", "TAKEN", "TAKES", "THEIR", "THEIRS",
   "THEM", "THEY", "THEYRE", "THING", "THINGS", "THINK", "THIRD", "THREE",
   "TIME", "TOUGH", "TRIES", "TRY", "TRYING", "TWO", "US", "WANNA",
   "WANT", "WE", "WELL", "WEVE", "WINDING", "WORD", "WORDS", "YOU",
   "YOUR", "YOURE", "YOURS"}

SpellAll(S) == {Spell(w) : w \in S}

AllowedConnectorChars == SpellAll(ALLOWED_CONNECTORS)
CommonVerbLowerChars == {LowerChars(cs) : cs \in SpellAll(COMMON_VERB_TOKENS)}
StopWordChars == SpellAll(DEFAULT_STOP_WORDS)
ImportantShortChars == SpellAll(IMPORTANT_SHORT_TOKENS)
FillerWordChars == SpellAll(FILLER_WORDS)
GenericSkipChars == SpellAll(GENERIC_SKIP_TOKENS)

LowerAlnumChars == SeqToSet(LowerLetters) \cup Digits
AlnumChars == LowerAlnumChars \cup SeqToSet(UpperLetters)
Whitespace == {" "}

\* re.findall(r"[class]+", cs): the maximal runs of characters of the class.
RECURSIVE FindAllRuns(_, _, _, _)
FindAllRuns(cs, class, cur, acc) ==
  IF cs = <<>> THEN (IF cur = <<>> THEN acc ELSE Append(acc, cur))
  ELSE IF Head(cs) \in class THEN FindAllRuns(Tail(cs), class, Append(cur, Head(cs)), acc)
  ELSE FindAllRuns(Tail(cs), class, <<>>, IF cur = <<>> THEN acc ELSE Append(acc, cur))

FindAll(cs, class) == FindAllRuns(cs, class, <<>>, <<>>)

\* re.sub(r"[^class]+", "", cs)
KeepChars(cs, class) == SelectSeq(cs, LAMBDA c : c \in class)

\* s[:n], a negative n counting from the end
Slice(s, n) == IF n >= 0 THEN Take(s, n) ELSE Take(s, Max(0, Len(s) + n))

\* The later definition of _clean_token, the one in force: re.sub(r"[^A-Za-z0-9']+", "", token)
clean_token(token) == KeepChars(token, AlnumChars \cup {"'"})

RECURSIVE trim_leading_connectors(_)
trim_leading_connectors(tokens) ==
  IF tokens # <<>> /\ UpperChars(Head(tokens)) \in AllowedConnectorChars
  THEN trim_leading_connectors(Tail(tokens))
  ELSE tokens

RECURSIVE trim_trailing_connectors(_)
trim_trailing_connectors(tokens) ==
  IF tokens # <<>> /\ UpperChars(tokens[Len(tokens)]) \in AllowedConnectorChars
  THEN trim_trailing_connectors(SubSeq(tokens, 1, Len(tokens) - 1))
  ELSE tokens

trim_edge_connectors(tokens) == trim_trailing_connectors(trim_leading_connectors(tokens))

\* _has_noun: a tagged index of `indices` carries a noun tag
has_noun(tag_map, indices) == \E idx \in indices : tag_map[idx] = "NN"

\* The tags the tagger may give: nouns, adjectives, cardinals, anything else.
PosTags == {"NN", "JJ", "CD", "VB"}

\* _filter_with_pos; `tags` is Nil without a tagger, else the tag of each token.

filter_with_pos(tokens, tags) ==
  With(Len(tokens), LAMBDA total :
  With({idx \in 1..total :
          With(KeepChars(tokens[idx], AlnumChars \cup {"'", "-"}), LAMBDA cleaned :
               cleaned # <<>> /\ UpperChars(cleaned) \notin AllowedConnectorChars)},
       LAMBDA taggable :
  With([idx \in 1..total |-> IF idx \in taggable THEN Get(tags)[idx] ELSE ""],
       LAMBDA index_to_tag :
  With([idx \in 1..total |-> clean_token(tokens[idx])], LAMBDA normalized :
  With([idx \in 1..total |-> UpperChars(normalized[idx]) \in AllowedConnectorChars],
       LAMBDA connector :
    LET Keep(idx) ==
          IF normalized[idx] = <<>> THEN FALSE
          ELSE IF connector[idx]
               THEN has_noun(index_to_tag, 1..(idx - 1)) /\ has_noun(index_to_tag, (idx + 1)..total)
          ELSE IF index_to_tag[idx] = "NN" THEN TRUE
          ELSE IF index_to_tag[idx] \in {"JJ", "CD"} THEN has_noun(index_to_tag, (idx + 1)..total)
          ELSE FALSE
        Out(idx) == IF connector[idx] THEN UpperChars(normalized[idx]) ELSE normalized[idx]
    IN IF tags = Nil \/ taggable = {} THEN <<>>
       ELSE With(SelectSeq([idx \in 1..total |-> idx], Keep), LAMBDA kept :
                 trim_edge_connectors([k \in 1..Len(kept) |-> Out(kept[k])])))))))

\* _fallback_filter
RECURSIVE FallbackLoop(_, _, _)

FallbackLoop(tokens, idx, selected) ==
  IF idx > Len(tokens) THEN selected
  ELSE
    With(clean_token(tokens[idx]), LAMBDA normalized :
    With(\E f \in (idx + 1)..Len(tokens) :
            With(Strip(tokens[f]), LAMBDA stripped :
                 /\ stripped # <<>>
                 /\ LowerChars(stripped) \notin CommonVerbLowerChars
                 /\ \E k \in 1..Len(stripped) : stripped[k] \in AlnumChars),
         LAMBDA has_future_content :
    With(IF normalized = <<>> THEN selected
         ELSE IF UpperChars(normalized) \in AllowedConnectorChars
              THEN (IF selected # <<>> /\ has_future_content
                    THEN Append(selected, UpperChars(normalized)) ELSE selected)
         ELSE IF LowerChars(normalized) \in CommonVerbLowerChars THEN selected
         ELSE IF ~(\E k \in 1..Len(normalized) : normalized[k] \in AlnumChars) THEN selected
         ELSE Append(selected, normalized),
         LAMBDA next_selected : FallbackLoop(tokens, idx + 1, next_selected))))

fallback_filter(tokens) == trim_edge_connectors(FallbackLoop(tokens, 1, <<>>))

\* The tokens up to the one that makes max_tokens content tokens.
RECURSIVE LimitTokens(_, _, _, _)

LimitTokens(filtered, max_tokens, limited, content_count) ==
  IF filtered = <<>> THEN limited
  ELSE With(IF UpperChars(Head(filtered)) \notin AllowedConnectorChars
            THEN content_count + 1 ELSE content_count,
            LAMBDA count :
              IF count >= max_tokens THEN Append(limited, Head(filtered))
              ELSE LimitTokens(Tail(filtered), max_tokens, Append(limited, Head(filtered)), count))


filter_tokens_to_noun_phrase(tokens, max_tokens, tags) ==
  With(SelectSeq([i \in 1..Len(tokens) |-> clean_token(tokens[i])], LAMBDA t : t # <<>>),
       LAMBDA cleaned :
  With(filter_with_pos(cleaned, tags), LAMBDA with_pos :
  With(IF with_pos # <<>> THEN with_pos ELSE fallback_filter(cleaned), LAMBDA fallback :
  With(IF fallback # <<>> THEN fallback ELSE cleaned, LAMBDA filtered :
  With(trim_edge_connectors(LimitTokens(filtered, max_tokens, <<>>, 0)), LAMBDA limited :
    IF cleaned = <<>> THEN <<>>
    ELSE IF max_tokens > 0 THEN (IF limited # <<>> THEN limited ELSE filtered)
    ELSE filtered)))))


keyword_is_meaningful(text) ==
  With(FindAll(UpperChars(text), AlnumChars), LAMBDA tokens :
     /\ tokens # <<>>
     /\ tokens # <<Spell("FIRST"), Spell("ONE")>>
     /\ \E i \in 1..Len(tokens) : tokens[i] \notin GenericSkipChars)

\* The loop collecting raw_candidates, stopping at max_tokens * 3 of them.
RECURSIVE RawCandidates(_, _, _, _)

RawCandidates(tokens, max_tokens, seen, raw_candidates) ==
  IF tokens = <<>> THEN raw_candidates
  ELSE
    With(Head(tokens), LAMBDA token :
    With(KeepChars(LowerChars(token), LowerAlnumChars), LAMBDA normalized :
    With(\/ normalized = <<>>
         \/ normalized \in FillerWordChars
         \/ (normalized \in StopWordChars /\ normalized \notin ImportantShortChars)
         \/ UpperChars(normalized) \in GenericSkipChars
         \/ (Len(normalized) < MIN_KEYWORD_LENGTH /\ normalized \notin ImportantShortChars)
         \/ UpperChars(token) \in seen,
         LAMBDA skip :
      IF ~skip /\ Len(raw_candidates) + 1 >= max_tokens * 3 THEN Append(raw_candidates, token)
      ELSE RawCandidates(Tail(tokens), max_tokens,
                         IF skip THEN seen ELSE seen \cup {UpperChars(token)},
                         IF skip THEN raw_candidates ELSE Append(raw_candidates, token)))))

\* phrase[: max_chars - 1].rstrip() + "..." when the phrase is longer than max_chars
Truncate(phrase, max_chars) ==
  IF Len(phrase) > max_chars THEN RStrip(Slice(phrase, max_chars - 1)) \o <<".", ".", ".">>
  ELSE phrase

\* select_keyword_phrase: Nil for None, else Some(phrase).

select_keyword_phrase(text, max_tokens, max_chars, tags) ==
  With(RawCandidates(FindAll(text, AlnumChars \cup {"'"}), max_tokens, {}, <<>>),
       LAMBDA raw_candidates :
  With(filter_tokens_to_noun_phrase(raw_candidates, max_tokens, tags), LAMBDA noun_phrase :
  With(IF noun_phrase # <<>> THEN noun_phrase ELSE Slice(raw_candidates, max_tokens),
       LAMBDA filtered_tokens :
  With([i \in 1..Len(filtered_tokens) |-> UpperChars(filtered_tokens[i])], LAMBDA keywords :
  With(JoinChars(Slice(keywords, max_tokens)), LAMBDA phrase :
  With(SelectSeq(keywords, keyword_is_meaningful), LAMBDA filtered :
  With(IF Len(filtered) = 1 THEN filtered[1] ELSE JoinChars(Slice(filtered, max_tokens)),
       LAMBDA second :
    IF text = <<>> \/ raw_candidates = <<>> \/ keywords = <<>> THEN Nil
    ELSE IF keyword_is_meaningful(phrase) THEN Some(Truncate(phrase, max_chars))
    ELSE IF filtered = <<>> \/ ~keyword_is_meaningful(second) THEN Nil
    ELSE Some(Truncate(second, max_chars)))))))))

(***************************************************************************)
(* Highlight synthesis: shared helpers                                     *)
(***************************************************************************)
\* The sort key of both passes: item.get('start', 0.0) or 0.0
StartKey(h) == IF h.start = Missing THEN 0 ELSE h.start

\* list.sort by start is stable: h goes after the elements whose key is <= its own.
RECURSIVE InsertByStart(_, _)
InsertByStart(sorted, h) ==
  IF sorted = <<>> THEN <<h>>
  ELSE IF StartKey(Head(sorted)) <= StartKey(h) THEN <<Head(sorted)>> \o InsertByStart(Tail(sorted), h)
  ELSE <<h>> \o sorted

RECURSIVE SortFrom(_, _)
SortFrom(hl, acc) == IF hl = <<>> THEN acc ELSE SortFrom(Tail(hl), InsertByStart(acc, Head(hl)))

SortByStart(hl) == SortFrom(hl, <<>>)

\* sanitize_text on a spelling: stripped, <<>> standing for None
sanitize_text(value) == IF value = None THEN <<>> ELSE Strip(Spell(value))

\* The first of duration_seconds, duration, length that is a positive number.
FirstPositive(container) ==
  IF container.duration_seconds > 0 THEN container.duration_seconds
  ELSE IF container.duration > 0 THEN container.duration
  ELSE IF container.length > 0 THEN container.length
  ELSE Missing

FALLBACK_DURATION == 3000

\* derive_duration_seconds; element.content counts when it is a string.
derive_duration_seconds(entry, element) ==
  With(FirstPositive(element), LAMBDA of_element :
  With(FirstPositive(entry), LAMBDA of_entry :
  With(IF of_element # Missing /\ of_element # FALLBACK_DURATION THEN of_element
       ELSE IF of_entry # Missing THEN of_entry
       ELSE FALLBACK_DURATION,
       LAMBDA base_duration :
  With(sanitize_text(element.content), LAMBDA of_content :
  With(IF of_content # <<>> THEN of_content ELSE sanitize_text(entry.text), LAMBDA text_content :
  With(Len(SplitParts(text_content, " ", <<>>)), LAMBDA word_count :
    IF text_content # <<>> THEN Max(base_duration, Max(1500, Min(word_count * 500, 5000)))
    ELSE base_duration))))))

\* The keyword extractor as the passes call it (no tagger: the fallback filter).
extract_meaningful_phrase(text, max_chars) ==
  With(select_keyword_phrase(text, MAX_KEYWORD_TOKENS, max_chars, Nil), LAMBDA phrase :
       IF phrase = Nil THEN <<>> ELSE Get(phrase))

condense_text(value, max_words, max_chars) ==
  With(select_keyword_phrase(value, Min(max_words, MAX_KEYWORD_TOKENS), max_chars, Nil),
       LAMBDA phrase : IF phrase = Nil THEN <<>> ELSE Get(phrase))

normalize_phrase(words, max_words, max_chars) ==
  With(JoinChars(words), LAMBDA joined :
  With(extract_meaningful_phrase(joined, max_chars), LAMBDA phrase :
    IF phrase # <<>> THEN phrase
    ELSE condense_text(joined, Min(max_words, MAX_KEYWORD_TOKENS), max_chars)))

\* ensure_highlight_keyword: whether the highlight is kept, and the highlight as left.
ensure_highlight_keyword(fields) ==
  IF fields.keyword # None /\ fields.keyword # "" /\ keyword_is_meaningful(Spell(fields.keyword))
  THEN [ok |-> TRUE, fields |-> fields]
  ELSE IF fields.text # None /\ fields.text # "" /\ keyword_is_meaningful(Spell(fields.text))
  THEN [ok |-> TRUE, fields |-> [fields EXCEPT !.keyword = fields.text]]
  ELSE [ok |-> FALSE, fields |-> fields]

SPLIT_TOKENS ==
  {"and", "but", "versus", "vs", "while", "because", "so", "then", "what", "that", "which",
   "where", "who"}

split_words_for_supporting(words) ==
  With(Len(words), LAMBDA n :
  With({idx \in 0..(n - 1) :
          /\ LowerChars(words[idx + 1]) \in SpellAll(SPLIT_TOKENS)
          /\ 2 <= idx /\ idx <= n - 3},
       LAMBDA at :
  With(IF at = {} THEN Max(2, n \div 2) ELSE CHOOSE idx \in at : \A other \in at : idx <= other,
       LAMBDA cut :
    IF n <= 3 THEN <<words, <<>>>>
    ELSE <<SubSeq(words, 1, cut), SubSeq(words, cut + 1, n)>>)))

DigitChars == <<"0", "1", "2", "3", "4", "5", "6", "7", "8", "9">>

RECURSIVE DecimalChars(_)
DecimalChars(n) ==
  IF n < 10 THEN <<DigitChars[n + 1]>> ELSE Append(DecimalChars(n \div 10), DigitChars[(n % 10) + 1])

RECURSIVE ZeroPad(_, _)
ZeroPad(cs, width) == IF Len(cs) >= width THEN cs ELSE ZeroPad(<<"0">> \o cs, width)

(***************************************************************************)
(* Highlight synthesis from subtitles                                      *)
(***************************************************************************)
SRT_MIN_GAP == 500

\* f"srt-{index:04d}"
SrtId(index) == Intern(Spell("srt-") \o ZeroPad(DecimalChars(index), 4))

\* parse_srt_file on the blocks of the file: a block is kept when both timecodes parse,
\* end > start and it has text; an index that is not a number becomes len(entries) + 1.
RECURSIVE ParseBlocks(_, _)
ParseBlocks(blocks, entries) ==
  IF blocks = <<>> THEN entries
  ELSE With(Head(blocks), LAMBDA b :
       With(Strip(Spell(b.text)), LAMBDA text :
         ParseBlocks(Tail(blocks),
           IF b.start = Missing \/ b.end = Missing \/ b.end <= b.start \/ text = <<>>
           THEN entries
           ELSE Append(entries,
                  [index |-> IF b.index = Missing THEN Len(entries) + 1 ELSE b.index,
                   start |-> b.start, end |-> b.end, duration |-> b.end - b.start,
                   text |-> Intern(text),
                   duration_seconds |-> Missing, length |-> Missing, content |-> None]))))

parse_srt_file(blocks) == ParseBlocks(blocks, <<>>)

has_conflict(hl, start_time, duration_time, min_gap) ==
  \E i \in 1..Len(hl) :
     /\ hl[i].start # Missing
     /\ \/ overlap_seconds(start_time, start_time + duration_time, hl[i].start,
                           hl[i].start + (IF hl[i].duration = Missing THEN 0 ELSE hl[i].duration)) > 0
        \/ (hl[i].start - start_time <= min_gap /\ start_time - hl[i].start <= min_gap)

\* round(x, 2) of a time given in hundredths of a millisecond
Round2SetOfHundredths(x) ==
  LET r == x % 1000
  IN IF r < 500 THEN {(x - r) \div 100}
     ELSE IF r > 500 THEN {(x - r + 1000) \div 100}
     ELSE {(x - 500) \div 100, (x + 500) \div 100}

OverrideHighlight(id, start, duration, layout, text, right, safe) ==
  [BlankHighlight EXCEPT
     !.id = id, !.type = "noteBox", !.start = start, !.duration = duration,
     !.importance = "primary", !.position = "bottom", !.layout = layout,
     !.text = text, !.keyword = text, !.showBottom = TRUE,
     !.safeBottom = IF safe THEN 18 ELSE Missing,
     !.safeInsetHorizontal = IF safe THEN 8 ELSE Missing,
     !.staggerLeft = IF layout = "dual" THEN 0 ELSE Missing,
     !.staggerRight = IF layout = "dual" THEN 2000 ELSE Missing,
     !.supportingTexts = IF layout = "dual" THEN [topLeft |-> text, topRight |-> right]
                         ELSE [topLeft |-> None, topRight |-> None]]

\* build_highlight_override: Nil for None.
build_highlight_override(entry, text_lower, start, duration) ==
  With(SrtId(entry.index), LAMBDA highlight_id :
    LET Has(s) == ContainsChars(text_lower, Spell(s))
    IN IF Has("epstein-barr")
       THEN Some(OverrideHighlight(highlight_id, start, duration, "dual", "EPSTEIN-BARR VIRUS",
                                   IF Has("32") THEN "32X MS RISK"
                                   ELSE IF Has("kissing") THEN "THE KISSING DISEASE"
                                   ELSE "MONONUCLEOSIS", FALSE))
       ELSE IF Has("didn't know what caused")
       THEN Some(OverrideHighlight(highlight_id, start, duration, "dual", "UNKNOWN CAUSE",
                                   "HARD TO TREAT", FALSE))
       ELSE IF Has("10 million") /\ Has("20 year")
       THEN Some(OverrideHighlight(highlight_id, start, duration, "dual", "10 MILLION PEOPLE",
                                   "20 YEARS", TRUE))
       ELSE IF Has("direct link") /\ Has("multiple sclerosis")
       THEN Some(OverrideHighlight(highlight_id, start, duration, "bottom", "DIRECT LINK: EBV ? MS",
                                   None, TRUE))
       ELSE IF Has("multiple sclerosis") /\ Has("32")
       THEN Some(OverrideHighlight(highlight_id, start, duration, "bottom", "32X MS RISK",
                                   None, TRUE))
       ELSE Nil)

\* The highlight of an entry that has no override, before its start is shifted;
\* `toggle` is side_toggle.  Nil when the entry gives no meaningful phrase.
SrtHighlight(entry, words, duration, toggle) ==
  With(normalize_phrase(words, 4, 40), LAMBDA primary_text :
  With(split_words_for_supporting(words), LAMBDA halves :
  With(normalize_phrase(halves[1], 4, 32), LAMBDA left_text :
  With(IF halves[2] # <<>> THEN normalize_phrase(halves[2], 4, 32) ELSE <<>>, LAMBDA right_text :
  With(left_text # <<>> /\ keyword_is_meaningful(left_text) /\ left_text # primary_text,
       LAMBDA left_ok :
  With(/\ right_text # <<>> /\ keyword_is_meaningful(right_text)
       /\ right_text \notin {primary_text, left_text},
       LAMBDA right_ok :
  With(IF left_ok THEN left_text ELSE right_text, LAMBDA phrase :
  With(IF left_ok /\ right_ok THEN "dual"
       ELSE IF left_ok \/ right_ok THEN (IF toggle THEN "right" ELSE "left")
       ELSE "bottom",
       LAMBDA layout :
    IF primary_text = <<>> \/ ~keyword_is_meaningful(primary_text) THEN Nil
    ELSE With(Intern(primary_text), LAMBDA primary :
      Some(
       [BlankHighlight EXCEPT
          !.id = SrtId(entry.index), !.type = "noteBox", !.duration = duration,
          !.position = "bottom", !.layout = layout, !.importance = "primary",
          !.showBottom = TRUE, !.safeBottom = 18, !.safeInsetHorizontal = 8,
          !.text = primary, !.keyword = primary,
          !.staggerLeft = IF layout \in {"dual", "left"} THEN 0 ELSE Missing,
          !.staggerRight = IF layout = "dual" THEN 2000
                           ELSE IF layout = "right" THEN 0 ELSE Missing,
          !.supportingTexts =
             IF layout = "dual" THEN [topLeft |-> Intern(left_text), topRight |-> Intern(right_text)]
             ELSE IF layout = "left" THEN [topLeft |-> Intern(phrase), topRight |-> None]
             ELSE IF layout = "right" THEN [topLeft |-> None, topRight |-> Intern(phrase)]
             ELSE [topLeft |-> None, topRight |-> None]]))))))))))

NextToggle_Never(side_toggle, layout) == side_toggle

\* side_toggle = not side_toggle, in the branch of a single-sided highlight.
NextToggle(side_toggle, layout) ==
  IF layout \in {"left", "right"} THEN ~side_toggle ELSE side_toggle

\* The shifted start, for each outcome of the rounding: times in hundredths of a ms.
ShiftedStarts(start, duration, hl_duration) ==
  With(Max(start, start + duration - hl_duration), LAMBDA max_start :
  With(100 * start + 55 * duration, LAMBDA desired :
    Round2SetOfHundredths(Min(Max(desired, 100 * start), 100 * max_start))))

\* One iteration of `for entry in entries`: the states it can leave.
SrtStep(st, entry) ==
  With(Max(0, entry.start), LAMBDA start :
  With(derive_duration_seconds(entry, entry), LAMBDA duration :
  With(Spell(entry.text), LAMBDA raw_text :
  With(LowerChars(raw_text), LAMBDA text_lower :
  With(FindAll(raw_text, AlnumChars \cup {"'", "%", "-"}), LAMBDA words :
  With(LowerChars(JoinChars(words)), LAMBDA normalized_sentence :
  With([st EXCEPT !.recent_phrases = @ \cup {normalized_sentence}], LAMBDA taken :
    LET Add(s, h) == [s EXCEPT !.highlights = Append(@, h), !.injected = Append(@, h)]
    IN IF start < 600 \/ has_conflict(st.highlights, start, duration, SRT_MIN_GAP) THEN {st}
       ELSE IF \E phrase \in BLACKLIST_PHRASES : ContainsChars(text_lower, Spell(phrase)) THEN {st}
       ELSE IF words = <<>> THEN {st}
       ELSE IF normalized_sentence \in st.recent_phrases THEN {st}
       ELSE
         With(build_highlight_override(entry, text_lower, start, duration), LAMBDA override :
           IF override # Nil
           THEN With(ensure_highlight_keyword(Get(override)), LAMBDA ensured :
                  {IF ensured.ok THEN Add(taken, [ensured.fields EXCEPT !.start = s, !.duration = d])
                   ELSE taken
                   : s \in Round2Set(start), d \in Round2Set(duration)})
           ELSE
             With(SrtHighlight(entry, words, duration, st.side_toggle), LAMBDA plain :
               IF plain = Nil THEN {taken}
               ELSE With([taken EXCEPT !.side_toggle = NextToggle(@, Get(plain).layout)],
                         LAMBDA toggled :
                    With(ensure_highlight_keyword(Get(plain)), LAMBDA ensured :
                      IF ~ensured.ok THEN {toggled}
                      ELSE UNION {{Add(toggled,
                                       [ensured.fields EXCEPT !.start = s, !.duration = d])
                                   : s \in ShiftedStarts(start, duration, d)}
                                  : d \in Round2Set(duration)})))))))))))

RECURSIVE SrtLoop(_, _)
SrtLoop(states, entries) ==
  IF entries = <<>> THEN states
  ELSE SrtLoop(UNION {SrtStep(st, Head(entries)) : st \in states}, Tail(entries))

\* What a synthesis pass leaves and returns: sorted only if something was injected.
SynthResults(states) ==
  {[highlights |-> IF st.injected # <<>> THEN SortByStart(st.highlights) ELSE st.highlights,
    injected |-> st.injected] : st \in states}

\* augment_highlights_from_srt: the (highlights, injected) it can leave.
augment_highlights_from_srt(hl, blocks) ==
  With(parse_srt_file(blocks), LAMBDA entries :
    IF entries = <<>> THEN {[highlights |-> hl, injected |-> <<>>]}
    ELSE SynthResults(SrtLoop({[highlights |-> SortByStart(hl), injected |-> <<>>,
                                side_toggle |-> FALSE, recent_phrases |-> {}]},
                              entries)))

\* main: augment_highlights_from_srt(enriched_plan, highlight_srt_path)
CallAugmentFromSrt ==
  /\ pc = "srt"
  /\ hl_before' = highlights
  /\ \E result \in augment_highlights_from_srt(highlights, srt_entries) :
        /\ highlights' = result.highlights
        /\ injected' = result.injected
  /\ passes' = passes \o <<"augment_highlights_from_srt">>
  /\ pc' = "trim"
  /\ UNCHANGED <<segments, meta_warnings, scene_segments, broll_catalog, sfx_catalog,
                 motion_rules, plan_segment, scene_summary, seg_index, assigned_motion,
                 cta_candidates, warnings, seg_before, scene_cued, runs, phrase_in,
                 phrase_out, srt_entries, timeline,
                 motion_steps, broll_call, sfx_attached, broll_steps>>

(***************************************************************************)
(* Highlight synthesis from the overlay catalog                            *)
(***************************************************************************)
CATALOG_MIN_GAP == 400

\* parse_timestamp_to_seconds: Missing for None.  A timestamp is absent, a number, or
\* a text whose colon-separated parts are numbers ("12:34" is <<12000, 34000>>) or
\* a text float() rejects.
parse_timestamp_to_seconds(value) ==
  IF value.kind = "number" THEN (IF value.number >= 0 THEN value.number ELSE Missing)
  ELSE IF value.kind = "text"
  THEN With(value.parts, LAMBDA parts :
         IF Len(parts) \notin {1, 2, 3} THEN Missing
         ELSE With(IF Len(parts) = 1 THEN parts[1]
                   ELSE IF Len(parts) = 2 THEN parts[2] + parts[1] * 60
                   ELSE parts[3] + parts[2] * 60 + parts[1] * 3600,
                   LAMBDA seconds : IF seconds >= 0 THEN seconds ELSE Missing))
  ELSE Missing

\* f'kb-{entry_index:03d}-{element_index:02d}'
OverlayId(entry_index, element_index) ==
  Intern(Spell("kb-") \o ZeroPad(DecimalChars(entry_index), 3) \o <<"-">>
         \o ZeroPad(DecimalChars(element_index), 2))

\* The first non-empty spelling of a list, <<>> without one: a or b or ...
RECURSIVE FirstText(_)
FirstText(texts) ==
  IF texts = <<>> THEN <<>>
  ELSE IF Head(texts) # <<>> THEN Head(texts) ELSE FirstText(Tail(texts))

\* The main text and the supporting texts of an overlay element.
OverlayTexts(entry, element) ==
  With(element.content, LAMBDA content :
  With(sanitize_text(entry.script), LAMBDA script :
    IF content.kind = "str"
    THEN [main_text |-> FirstText(<<sanitize_text(content.text), script>>),
          topLeft |-> <<>>, topRight |-> <<>>, topCenter |-> <<>>]
    ELSE IF content.kind = "dict"
    THEN With(content.items, LAMBDA items :
         With(IF items # <<>> THEN sanitize_text(items[1]) ELSE <<>>, LAMBDA first :
         With(IF Len(items) > 1 THEN sanitize_text(items[2]) ELSE <<>>, LAMBDA second :
         With(FirstText(<<sanitize_text(content.keyword), sanitize_text(content.title),
                          sanitize_text(content.heading), sanitize_text(content.label)>>),
              LAMBDA named :
         With(IF items = <<>> THEN <<>>
              ELSE FirstText(<<sanitize_text(items[Len(items)]), first>>),
              LAMBDA from_items :
           [main_text |-> FirstText(<<named, from_items, script>>),
            topLeft |-> FirstText(<<first, sanitize_text(content.top_left),
                                    sanitize_text(content.topLeft), sanitize_text(content.left),
                                    sanitize_text(content.primary)>>),
            topRight |-> FirstText(<<second, sanitize_text(content.top_right),
                                     sanitize_text(content.topRight), sanitize_text(content.right),
                                     sanitize_text(content.secondary)>>),
            topCenter |-> FirstText(<<sanitize_text(content.top_center),
                                      sanitize_text(content.topCenter)>>)])))))
    ELSE [main_text |-> script, topLeft |-> <<>>, topRight |-> <<>>, topCenter |-> <<>>]))

\* The element as derive_duration_seconds reads it: its content counts when a string.
DurationContainer(element) ==
  [duration_seconds |-> element.duration_seconds, duration |-> element.duration,
   length |-> element.length,
   content |-> IF element.content.kind = "str" THEN element.content.text ELSE None]

\* build_highlight_from_overlay before the rounding of start and duration: Nil for None,
\* else the highlight with the unrounded timestamp and duration.
build_highlight_from_overlay(entry_index, entry, element_index, element) ==
  With(parse_timestamp_to_seconds(entry.timestamp), LAMBDA timestamp :
  With(OverlayTexts(entry, element), LAMBDA texts :
    IF element.type # "text_overlay" \/ timestamp = Missing \/ texts.main_text = <<>> THEN Nil
    ELSE
      With(extract_meaningful_phrase(texts.main_text, 42), LAMBDA primary_keyword :
        IF primary_keyword = <<>> \/ ~keyword_is_meaningful(primary_keyword) THEN Nil
        ELSE
          With([v \in {texts.topLeft, texts.topRight, texts.topCenter} |->
                  IF v = <<>> THEN <<>> ELSE extract_meaningful_phrase(v, 32)],
               LAMBDA Cleaned :
          With(FirstText(<<Cleaned[texts.topLeft], Cleaned[texts.topCenter]>>), LAMBDA left_value :
          With(FirstText(<<Cleaned[texts.topRight], Cleaned[texts.topCenter]>>), LAMBDA right_value :
          With(left_value # <<>>, LAMBDA has_left :
          With(right_value # <<>> /\ right_value # left_value, LAMBDA has_right :
          With(IF has_left /\ has_right THEN "dual"
               ELSE IF has_left THEN "left"
               ELSE IF has_right THEN "right"
               ELSE "bottom",
               LAMBDA layout :
          With(Intern(primary_keyword), LAMBDA primary :
            Some(
              [BlankHighlight EXCEPT
                 !.id = OverlayId(entry_index, element_index), !.type = "noteBox",
                 !.start = timestamp,
                 !.duration = derive_duration_seconds(entry, DurationContainer(element)),
                 !.position = "bottom", !.layout = layout, !.importance = "primary",
                 !.showBottom = TRUE, !.safeBottom = 18, !.safeInsetHorizontal = 8,
                 !.text = primary, !.keyword = primary,
                 !.supportingTexts = [topLeft |-> IF has_left THEN Intern(left_value) ELSE None,
                                      topRight |-> IF has_right THEN Intern(right_value) ELSE None],
                 !.staggerLeft = IF layout \in {"dual", "left"} THEN 0 ELSE Missing,
                 !.staggerRight = IF layout = "dual" THEN 2000
                                  ELSE IF layout = "right" THEN 0 ELSE Missing])))))))))))

\* The layout the pass gives an accepted highlight; `toggle` is side_toggle.
PlaceOverlay(highlight, toggle) ==
  With(highlight.supportingTexts, LAMBDA supporting :
  With(IF toggle THEN supporting.topRight ELSE supporting.topLeft, LAMBDA value :
  With(IF supporting.topLeft # None THEN supporting.topLeft ELSE supporting.topRight,
       LAMBDA fallback_value :
  With(IF value # None THEN value ELSE fallback_value, LAMBDA final_value :
  With([highlight EXCEPT !.position = "bottom", !.showBottom = TRUE,
                         !.importance = Lower(highlight.importance)],
       LAMBDA placed :
    IF highlight.layout \in {"left", "right"}
    THEN IF ~toggle
         THEN [placed EXCEPT !.layout = "left",
                             !.supportingTexts = [topLeft |-> final_value, topRight |-> None],
                             !.staggerLeft = 0, !.staggerRight = Missing]
         ELSE [placed EXCEPT !.layout = "right",
                             !.supportingTexts = [topLeft |-> None, topRight |-> final_value],
                             !.staggerRight = 0, !.staggerLeft = Missing]
    ELSE IF highlight.layout = "dual"
    THEN [placed EXCEPT !.staggerLeft = 0, !.staggerRight = Max(2000, @)]
    ELSE [placed EXCEPT !.layout = "bottom",
                        !.supportingTexts = [topLeft |-> None, topRight |-> None],
                        !.staggerLeft = Missing, !.staggerRight = Missing])))))

\* One iteration of the loop over the elements: the states it can leave.
CatalogStep(st, entry_index, entry, element_index, element) ==
  With(build_highlight_from_overlay(entry_index, entry, element_index, element), LAMBDA built :
    IF built = Nil THEN {st}
    ELSE With(Get(built), LAMBDA h :
         With(PlaceOverlay(h, st.side_toggle), LAMBDA placed :
           {IF \E existing \in SeqToSet(st.existing_starts) :
                  existing - s <= CATALOG_MIN_GAP /\ s - existing <= CATALOG_MIN_GAP
            THEN st
            ELSE [highlights |-> Append(st.highlights, [placed EXCEPT !.start = s, !.duration = d]),
                  injected |-> Append(st.injected, [placed EXCEPT !.start = s, !.duration = d]),
                  existing_starts |-> Append(st.existing_starts, s),
                  side_toggle |-> NextToggle(st.side_toggle, h.layout)]
            : s \in Round2Set(h.start), d \in Round2Set(h.duration)})))

\* The (entry, element) index pairs of the timeline, in loop order (0-based as in the code).
RECURSIVE ElementPairs(_, _)
ElementPairs(tl, entry_index) ==
  IF entry_index >= Len(tl) THEN <<>>
  ELSE [x \in 1..Len(tl[entry_index + 1].elements) |-> <<entry_index, x - 1>>]
       \o ElementPairs(tl, entry_index + 1)

RECURSIVE CatalogLoop(_, _, _)
CatalogLoop(states, tl, pairs) ==
  IF pairs = <<>> THEN states
  ELSE With(Head(pairs), LAMBDA at :
       With(tl[at[1] + 1], LAMBDA entry :
         CatalogLoop(UNION {CatalogStep(st, at[1], entry, at[2], entry.elements[at[2] + 1])
                              : st \in states},
                     tl, Tail(pairs))))

\* augment_highlights_from_catalog: the (highlights, injected) it can leave.
augment_highlights_from_catalog(hl, tl) ==
  IF tl = <<>> THEN {[highlights |-> hl, injected |-> <<>>]}
  ELSE With(SelectSeq(hl, LAMBDA h : h.start # Missing), LAMBDA numeric :
         SynthResults(
           CatalogLoop({[highlights |-> hl, injected |-> <<>>,
                         existing_starts |-> [i \in 1..Len(numeric) |-> numeric[i].start],
                         side_toggle |-> FALSE]},
                       tl, ElementPairs(tl, 0))))

\* main: augment_highlights_from_catalog(enriched_plan, highlight_catalog)
CallAugmentFromCatalog ==
  /\ pc = "catalog"
  /\ hl_before' = highlights
  /\ \E result \in augment_highlights_from_catalog(highlights, timeline) :
        /\ highlights' = result.highlights
        /\ injected' = result.injected
  /\ passes' = passes \o <<"augment_highlights_from_catalog">>
  /\ pc' = "srt"
  /\ UNCHANGED <<segments, meta_warnings, scene_segments, broll_catalog, sfx_catalog,
                 motion_rules, plan_segment, scene_summary, seg_index, assigned_motion,
                 cta_candidates, warnings, seg_before, scene_cued, runs, phrase_in,
                 phrase_out, srt_entries, timeline,
                 motion_steps, broll_call, sfx_attached, broll_steps>>

(***************************************************************************)
(* The finishing passes of main on the highlights: trim, SFX attach, SFX   *)
(* strip.  Gains are in tenths (-2.5 is -25).                              *)
(***************************************************************************)
TRIM_MARGIN == 250

\* latest_end of trim_highlights_to_segments: a segment whose sourceStart or duration
\* float() rejects is passed over.
RECURSIVE LatestEnd(_, _)
LatestEnd(segs, latest_end) ==
  IF segs = <<>> THEN latest_end
  ELSE With(Head(segs), LAMBDA segment :
         LatestEnd(Tail(segs),
                   IF FloatRaises(segment.sourceStart) \/ FloatRaises(segment.duration)
                   THEN latest_end
                   ELSE Max(latest_end, segment.sourceStart + Max(0, segment.duration))))

trim_highlights_to_segments_Unsorted(segs, hls, margin) ==
  IF segs = <<>> \/ hls = <<>> THEN hls
  ELSE With(LatestEnd(segs, 0) + margin, LAMBDA cutoff :
         SelectSeq(hls, LAMBDA h : h.start # Missing /\ h.start <= cutoff))

\* trim_highlights_to_segments: the highlights it leaves.
trim_highlights_to_segments(segs, hls, margin) ==
  IF segs = <<>> \/ hls = <<>> THEN hls
  ELSE With(LatestEnd(segs, 0) + margin, LAMBDA cutoff :
         SortByStart(SelectSeq(hls, LAMBDA h : h.start # Missing /\ h.start <= cutoff)))

HIGHLIGHT_SFX_RULES ==
  <<[keywords |-> {"sweet", "honest"}, sfx |-> "assets/sfx/emotion/applause.mp3", gain |-> 0 - 25],
    [keywords |-> {"high school", "sweetheart", "sweethearts"}, sfx |-> "assets/sfx/ui/pop.mp3", gain |-> 0 - 25],
    [keywords |-> {"clientele", "client", "clients"}, sfx |-> "assets/sfx/ui/pop.mp3", gain |-> 0 - 25],
    [keywords |-> {"loyalty", "day one"}, sfx |-> "assets/sfx/emphasis/ding.mp3", gain |-> 0 - 25],
    [keywords |-> {"relationship", "relationships"}, sfx |-> "assets/sfx/ui/bubble-pop.mp3", gain |-> 0 - 30],
    [keywords |-> {"consistency", "consistent"}, sfx |-> "assets/sfx/emphasis/ding.mp3", gain |-> 0 - 30]>>

\* The lowered paths (file, or id without a file) of the items of the SFX catalog.
AvailableSfx(catalog) ==
  IF catalog = Nil THEN {}
  ELSE {Lower(IF item.file # None THEN item.file ELSE item.id)
          : item \in SeqToSet(Get(catalog).items)}

\* " ".join(filter(None, [text, keyword, title])).lower(); the model's highlights have no title.
SfxCombinedText(highlight) ==
  LowerChars(JoinChars(SelectSeq(<<Spell(IF highlight.text = None THEN "" ELSE highlight.text),
                                   Spell(IF highlight.keyword = None THEN "" ELSE highlight.keyword)>>,
                                 LAMBDA cs : cs # <<>>)))

\* The index of the first rule that has a keyword in the text and a path that is
\* available (any path when nothing is available); 0 without one.
SfxRuleIndex(combined, available) ==
  With({r \in 1..Len(HIGHLIGHT_SFX_RULES) :
          /\ \E keyword \in HIGHLIGHT_SFX_RULES[r].keywords : ContainsChars(combined, Spell(keyword))
          /\ available = {} \/ Lower(HIGHLIGHT_SFX_RULES[r].sfx) \in available},
       LAMBDA hits : IF hits = {} THEN 0 ELSE CHOOSE r \in hits : \A q \in hits : r <= q)

\* The body of the loop over the highlights of ensure_highlight_sfx.
AttachSfx(highlight, available) ==
  IF highlight.sfx # None THEN highlight
  ELSE With(SfxCombinedText(highlight), LAMBDA combined :
         IF combined = <<>> THEN highlight
         ELSE With(SfxRuleIndex(combined, available), LAMBDA r :
                IF r = 0 THEN highlight
                ELSE [highlight EXCEPT !.sfx = HIGHLIGHT_SFX_RULES[r].sfx,
                                       !.gain = HIGHLIGHT_SFX_RULES[r].gain,
                                       !.audio = IF @ = None THEN "auto" ELSE @]))

ensure_highlight_sfx(hls, catalog) ==
  With(AvailableSfx(catalog), LAMBDA available :
       [i \in 1..Len(hls) |-> AttachSfx(hls[i], available)])

strip_non_section_sfx_AllTypes(hls) ==
  [i \in 1..Len(hls) |->
     IF hls[i].audio \in {"auto", "keep", "accent"} THEN hls[i]
     ELSE [hls[i] EXCEPT !.sfx = None, !.gain = Missing]]

strip_non_section_sfx(hls) ==
  [i \in 1..Len(hls) |->
     IF hls[i].type = "sectionTitle" \/ hls[i].audio \in {"auto", "keep", "accent"} THEN hls[i]
     ELSE [hls[i] EXCEPT !.sfx = None, !.gain = Missing]]

\* main: trim_highlights_to_segments(enriched_plan)
CallTrimHighlights ==
  /\ pc = "trim"
  /\ highlights' = trim_highlights_to_segments(segments, highlights, TRIM_MARGIN)
  /\ passes' = Append(passes, "trim_highlights_to_segments")
  /\ pc' = "broll_from_highlights"
  /\ UNCHANGED <<segments, meta_warnings, scene_segments, broll_catalog, sfx_catalog,
                 motion_rules, plan_segment, scene_summary, seg_index, assigned_motion,
                 cta_candidates, warnings, seg_before, hl_before, scene_cued, runs,
                 phrase_in, phrase_out, srt_entries, timeline, injected,
                 motion_steps, broll_call, sfx_attached, broll_steps>>

\* main: ensure_highlight_sfx(enriched_plan, sfx_catalog)
CallHighlightSfx ==
  /\ pc = "highlight_sfx"
  /\ \E attached \in {ensure_highlight_sfx(highlights, sfx_catalog)} :
        /\ highlights' = attached
        /\ sfx_attached' = [i \in 1..Len(highlights) |->
                              IF highlights[i].sfx = None /\ attached[i].sfx # None
                              THEN Some([sfx |-> attached[i].sfx, gain |-> attached[i].gain])
                              ELSE Nil]
  /\ passes' = Append(passes, "ensure_highlight_sfx")
  /\ pc' = "strip_sfx"
  /\ UNCHANGED <<segments, meta_warnings, scene_segments, broll_catalog, sfx_catalog,
                 motion_rules, plan_segment, scene_summary, seg_index, assigned_motion,
                 cta_candidates, warnings, seg_before, hl_before, scene_cued, runs,
                 phrase_in, phrase_out, srt_entries, timeline, injected,
                 motion_steps, broll_call, broll_steps>>

\* main: strip_non_section_sfx(enriched_plan); then the plan is written.
CallStripSfx ==
  /\ pc = "strip_sfx"
  /\ highlights' = strip_non_section_sfx(highlights)
  /\ passes' = Append(passes, "strip_non_section_sfx")
  /\ pc' = "written"
  /\ UNCHANGED <<segments, meta_warnings, scene_segments, broll_catalog, sfx_catalog,
                 motion_rules, plan_segment, scene_summary, seg_index, assigned_motion,
                 cta_candidates, warnings, seg_before, hl_before, scene_cued, runs,
                 phrase_in, phrase_out, srt_entries, timeline, injected,
                 motion_steps, broll_call, sfx_attached, broll_steps>>

(***************************************************************************)
(* Inputs                                                                  *)
(***************************************************************************)
MaxSegments == 3
MaxSceneRecords == 2

SegIds == <<"seg-1", "seg-2", "seg-3", "seg-4", "seg-5">>

Segment(i, start, duration) ==
  [id |-> SegIds[i], sourceStart |-> start, duration |-> duration, kind |-> None,
   broll |-> Nil, motionCue |-> None, sfxHints |-> Nil, notes |-> <<>>]

\* Plans of lo..hi segments, each with a (sourceStart, duration) of `times`.
PlansOf(times, lo, hi) ==
  UNION {{[i \in 1..n |-> Segment(i, f[i][1], f[i][2])] : f \in [1..n -> times]} : n \in lo..hi}

SceneRecord(start, end, score, cands, cta) ==
  [start |-> start, end |-> end, topics |-> <<"Marketing">>, highlightScore |-> score,
   motionCandidates |-> cands, tokens |-> <<"seo">>, sfxHints |-> <<"whoosh">>, cta |-> cta,
   textOneLine |-> "line"]

BrollItem(id, topics, keywords, duration) ==
  [id |-> id, file |-> id, topics |-> topics, keywords |-> keywords, mood |-> <<"calm">>,
   mediaType |-> "video", orientation |-> "landscape", duration |-> duration]

SceneBrollCatalog ==
  [items |-> <<BrollItem("business_strategy", <<"strategy">>, <<"SEO">>, 9000),
               BrollItem("marketing_automation", <<"marketing">>, <<>>, 9000),
               BrollItem("digital_network", <<"marketing">>, <<>>, 20000)>>]

SfxCatalog ==
  [items |-> <<[id |-> "pop", file |-> "assets/sfx/ui/pop.mp3"]>>,
   categories |-> <<[id |-> "ui", items |-> <<[id |-> "pop", file |-> "assets/sfx/ui/pop.mp3"]>>],
                    [id |-> "emotion",
                     items |-> <<[id |-> "applause_big", file |-> None]>>]>>]

MotionRules(frequency, rate) ==
  Some([motion_frequency |-> frequency, highlight_rate |-> Some(rate),
        zoom_out_keywords |-> Some(<<"overview">>)])

PlanHighlight(id, start, duration) ==
  [BlankHighlight EXCEPT !.id = id, !.type = "noteBox", !.start = start, !.duration = duration,
                         !.text = "LOYAL CLIENTS", !.keyword = "LOYAL CLIENTS",
                         !.importance = "primary"]

(***************************************************************************)
(* enrich_plan on any plan, scene map, catalogs and rules.                 *)
(***************************************************************************)
EnrichTimes == {<<0, 10000>>, <<10000, 4000>>, <<50000, 6000>>}

EnrichSceneRecords ==
  {SceneRecord(0, 10000, 8, <<"zoom-in">>, FALSE),
   SceneRecord(10000, 14000, 3, <<>>, TRUE),
   SceneRecord(0, 14000, 4, <<>>, TRUE)}

EnrichRules ==
  {Nil, Some(EmptyRules), MotionRules(Nil, 5), MotionRules(Some(0), 5), MotionRules(Some(5), 4)}

\* The optional inputs: no catalog at all, or both catalogs and a plan with a highlight.
EnrichOptionalInputs ==
  {[broll |-> Nil, sfx |-> Nil, highlights |-> <<>>],
   [broll |-> Some(SceneBrollCatalog), sfx |-> Some(SfxCatalog),
    highlights |-> <<PlanHighlight("hl-1", 20000, 2000)>>]}

InitEnrich ==
  /\ pc = "enrich_loop"
  /\ segments \in PlansOf(EnrichTimes, 0, MaxSegments)
  /\ \E opt \in EnrichOptionalInputs :
        /\ highlights = opt.highlights
        /\ broll_catalog = opt.broll
        /\ sfx_catalog = opt.sfx
  /\ meta_warnings = Nil
  /\ scene_segments \in SeqsOf(EnrichSceneRecords, 0, MaxSceneRecords)
  /\ motion_rules \in EnrichRules
  /\ plan_segment = Nil
  /\ scene_summary = Nil
  /\ seg_index = 1
  /\ assigned_motion = 0
  /\ cta_candidates = <<>>
  /\ warnings = <<>>
  /\ seg_before = segments
  /\ hl_before = highlights
  /\ scene_cued = {}
  /\ runs = 0
  /\ phrase_in = Nil
  /\ phrase_out = Nil
  /\ srt_entries = <<>>
  /\ timeline = <<>>
  /\ injected = <<>>
  /\ passes = <<>>
  /\ sfx_attached = <<>>
  /\ broll_steps = <<>>
  /\ motion_steps = <<>>
  /\ broll_call = Nil

NextEnrich == EnrichSegment \/ EnrichFinish

SpecEnrich == InitEnrich /\ [][NextEnrich]_vars

\* The segments of the plan that carry a motionCue given by the scene-driven pass.
SceneCuedCount == Cardinality(scene_cued)

\* C3: for a plan of n >= 1 segments and rules with a motion_frequency f in 0..1, at
\* most max(1, ceil(n * f)) segments carry a motionCue assigned by the scene-driven pass.
C3_SceneMotionBudget ==
  (Len(segments) >= 1 /\ RulesGiven(motion_rules) /\ Get(motion_rules).motion_frequency # Nil)
    => SceneCuedCount <= Max(1, CeilDiv(Len(segments) * Get(Get(motion_rules).motion_frequency), 10))

\* The total overlap of a segment with all scene records is zero.
ZeroOverlapWeight(seg) ==
  \A i \in 1..Len(scene_segments) :
     Min(seg.sourceStart + seg.duration, scene_segments[i].end)
       - Max(seg.sourceStart, scene_segments[i].start) <= 0

\* The segment was left alone by the scene-driven pass, except for the note.
SkippedByScenePass(i) ==
  /\ segments[i].broll = seg_before[i].broll
  /\ segments[i].motionCue = seg_before[i].motionCue
  /\ i \notin scene_cued
  /\ \A k \in 1..Len(cta_candidates) : cta_candidates[k].index # i
  /\ segments[i].notes = Append(seg_before[i].notes, NOTE_SKIPPED)

\* C9: a segment whose total overlap weight with the scene records is zero gets no
\* broll and no motionCue from the scene-driven pass, is no CTA candidate, consumes no
\* motion budget (the counter counts only the segments given a cue), and gets the
\* note that it was skipped.
C9_ZeroWeightSegmentSkipped ==
  /\ assigned_motion = Cardinality(scene_cued)
  /\ \A i \in 1..Len(segments) :
       (i < seg_index /\ ZeroOverlapWeight(seg_before[i])) => SkippedByScenePass(i)

\* C9 witness: the pass is over, it skipped a zero-weight segment and gave a cue and a
\* CTA candidate to others.
C9_Witness ==
  /\ pc = "catalog"
  /\ \E i \in 1..Len(segments) : ZeroOverlapWeight(seg_before[i])
  /\ scene_cued # {}
  /\ cta_candidates # <<>>

(***************************************************************************)
(* enrich_plan on plans and scene maps with malformed records.             *)
(***************************************************************************)
MalformedTimes ==
  {<<0, 10000>>, <<10000, 4000>>, <<10000, 0>>, <<10000, NotNumeric>>, <<NotNumeric, 4000>>}

MalformedSceneRecords ==
  {SceneRecord(0, 10000, 8, <<>>, FALSE),
   SceneRecord(NotNumeric, 10000, 8, <<>>, FALSE),
   SceneRecord(20000, 30000, NotNumeric, <<>>, FALSE),
   SceneRecord(0, 14000, NotNumeric, <<>>, TRUE)}

InitMalformed ==
  /\ pc = "enrich_loop"
  /\ segments \in PlansOf(MalformedTimes, 1, 2)
  /\ highlights = <<>>
  /\ broll_catalog = Nil
  /\ sfx_catalog = Nil
  /\ meta_warnings = Nil
  /\ scene_segments \in SeqsOf(MalformedSceneRecords, 0, MaxSceneRecords)
  /\ motion_rules = MotionRules(Some(5), 5)
  /\ plan_segment = Nil
  /\ scene_summary = Nil
  /\ seg_index = 1
  /\ assigned_motion = 0
  /\ cta_candidates = <<>>
  /\ warnings = <<>>
  /\ seg_before = segments
  /\ hl_before = highlights
  /\ scene_cued = {}
  /\ runs = 0
  /\ phrase_in = Nil
  /\ phrase_out = Nil
  /\ srt_entries = <<>>
  /\ timeline = <<>>
  /\ injected = <<>>
  /\ passes = <<>>
  /\ sfx_attached = <<>>
  /\ broll_steps = <<>>
  /\ motion_steps = <<>>
  /\ broll_call = Nil

SpecMalformed == InitMalformed /\ [][NextEnrich]_vars

\* C11: one malformed record never aborts the run: no step of enrich_plan raises, and a
\* segment whose duration is not positive is skipped by the scene-driven pass.
C11_MalformedRecordNeverAborts ==
  /\ pc # "raised"
  /\ \A i \in 1..Len(segments) :
       (/\ i < seg_index
        /\ ~FloatRaises(seg_before[i].sourceStart)
        /\ ~FloatRaises(seg_before[i].duration)
        /\ seg_before[i].duration <= 0) => SkippedByScenePass(i)

(***************************************************************************)
(* The aggregator called on its own: any segment, any scene records.       *)
(***************************************************************************)
AggSegments == {Segment(1, 10000, d) : d \in {10000, 0}}

MaxAggRecords == 3

AggSceneRecords ==
  {SceneRecord(t[1], t[2], score, m.cands, m.cta) :
     t \in {<<5000, 10000>>, <<12000, 16000>>, <<18000, 25000>>, <<25000, 18000>>},
     score \in {2, 8},
     m \in {[cands |-> <<>>, cta |-> FALSE], [cands |-> <<"Zoom Out", " slide_up ">>, cta |-> TRUE]}}

InitAggregate ==
  /\ pc = "aggregate"
  /\ plan_segment \in AggSegments
  /\ scene_segments \in SeqsOf(AggSceneRecords, 0, MaxAggRecords)
  /\ scene_summary = Nil
  /\ segments = <<>>
  /\ highlights = <<>>
  /\ meta_warnings = Nil
  /\ broll_catalog = Nil
  /\ sfx_catalog = Nil
  /\ motion_rules = Nil
  /\ seg_index = 0
  /\ assigned_motion = 0
  /\ cta_candidates = <<>>
  /\ warnings = <<>>
  /\ seg_before = <<>>
  /\ hl_before = <<>>
  /\ scene_cued = {}
  /\ runs = 0
  /\ phrase_in = Nil
  /\ phrase_out = Nil
  /\ srt_entries = <<>>
  /\ timeline = <<>>
  /\ injected = <<>>
  /\ passes = <<>>
  /\ sfx_attached = <<>>
  /\ broll_steps = <<>>
  /\ motion_steps = <<>>
  /\ broll_call = Nil

CallAggregate ==
  /\ pc = "aggregate"
  /\ scene_summary' = aggregate_scene_for_segment(plan_segment, scene_segments)
  /\ pc' = "aggregated"
  /\ UNCHANGED <<segments, highlights, meta_warnings, scene_segments, broll_catalog,
                 sfx_catalog, motion_rules, plan_segment, seg_index, assigned_motion,
                 cta_candidates, warnings, seg_before, hl_before, scene_cued, runs,
                 phrase_in, phrase_out, srt_entries, timeline, injected, passes,
                 motion_steps, broll_call, sfx_attached, broll_steps>>

NextAggregate == CallAggregate

SpecAggregate == InitAggregate /\ [][NextAggregate]_vars

\* w_r = max(0, min(seg.end, r.end) - max(seg.start, r.start))
ClaimWeight(seg, r) ==
  LET w == Min(seg.sourceStart + seg.duration, r.end) - Max(seg.sourceStart, r.start)
  IN IF w > 0 THEN w ELSE 0

\* The sum over the records r with w_r > 0 of w_r (scored: of score_r * w_r).
RECURSIVE ClaimSum(_, _, _)
ClaimSum(seg, scenes, scored) ==
  IF scenes = <<>> THEN 0
  ELSE (IF ClaimWeight(seg, Head(scenes)) > 0
        THEN ClaimWeight(seg, Head(scenes)) * (IF scored THEN Head(scenes).highlightScore ELSE 1)
        ELSE 0)
       + ClaimSum(seg, Tail(scenes), scored)

\* C7: the aggregated highlight score is sum(score_r * w_r) / sum(w_r) over the records
\* with w_r > 0 (there is no aggregate when there is none), and the records with zero
\* overlap change nothing: the aggregate is the one of the overlapping records alone.
C7_WeightedAverageScore ==
  pc = "aggregated" =>
    LET num == ClaimSum(plan_segment, scene_segments, TRUE)
        den == ClaimSum(plan_segment, scene_segments, FALSE)
        overlapping == SelectSeq(scene_segments, LAMBDA r : ClaimWeight(plan_segment, r) > 0)
    IN /\ (den = 0) <=> (scene_summary = Nil)
       /\ den > 0 => Get(scene_summary).highlight_score.num * den
                       = num * Get(scene_summary).highlight_score.den
       /\ scene_summary = aggregate_scene_for_segment(plan_segment, overlapping)

\* C7 witness: the segment [10,20) with records [12,16) of score 0.8 (weight 4), [18,25)
\* of score 0.2 (weight 2) and a record outside it flagged cta: the score is 0.6 and
\* the aggregate is not flagged.
C7_Witness ==
  /\ pc = "aggregated"
  /\ Len(scene_segments) = 3
  /\ scene_segments[1].start = 12000 /\ scene_segments[1].end = 16000
  /\ scene_segments[1].highlightScore = 8
  /\ scene_segments[2].start = 18000 /\ scene_segments[2].end = 25000
  /\ scene_segments[2].highlightScore = 2
  /\ scene_segments[3].start = 5000 /\ scene_segments[3].cta
  /\ scene_summary # Nil
  /\ Get(scene_summary).highlight_score = [num |-> 36000, den |-> 6000]
  /\ ~Get(scene_summary).cta

(***************************************************************************)
(* The timing validator called on its own.                                 *)
(***************************************************************************)
MaxTimingSegments == 3

TimingTimes ==
  {<<0, 5000>>, <<5200, 3000>>, <<4800, 3000>>, <<5050, 1000>>, <<4950, 1000>>, <<5051, 1000>>}

InitTiming ==
  /\ pc = "timing"
  /\ segments \in PlansOf(TimingTimes, 0, MaxTimingSegments)
  /\ warnings = <<>>
  /\ highlights = <<>>
  /\ meta_warnings = Nil
  /\ scene_segments = <<>>
  /\ broll_catalog = Nil
  /\ sfx_catalog = Nil
  /\ motion_rules = Nil
  /\ plan_segment = Nil
  /\ scene_summary = Nil
  /\ seg_index = 0
  /\ assigned_motion = 0
  /\ cta_candidates = <<>>
  /\ seg_before = segments
  /\ hl_before = <<>>
  /\ scene_cued = {}
  /\ runs = 0
  /\ phrase_in = Nil
  /\ phrase_out = Nil
  /\ srt_entries = <<>>
  /\ timeline = <<>>
  /\ injected = <<>>
  /\ passes = <<>>
  /\ sfx_attached = <<>>
  /\ broll_steps = <<>>
  /\ motion_steps = <<>>
  /\ broll_call = Nil

CallTimingWarnings ==
  /\ pc = "timing"
  /\ warnings' = compute_timing_warnings(segments, TOLERANCE)
  /\ pc' = "timed"
  /\ UNCHANGED <<segments, highlights, meta_warnings, scene_segments, broll_catalog,
                 sfx_catalog, motion_rules, plan_segment, scene_summary, seg_index,
                 assigned_motion, cta_candidates, seg_before, hl_before, scene_cued, runs,
                 phrase_in, phrase_out, srt_entries, timeline, injected, passes,
                 motion_steps, broll_call, sfx_attached, broll_steps>>

NextTiming == CallTimingWarnings

SpecTiming == InitTiming /\ [][NextTiming]_vars

\* gap = next.sourceStart - (prev.sourceStart + prev.duration) of the i-th pair
PairGap(i) == segments[i + 1].sourceStart - (segments[i].sourceStart + segments[i].duration)

\* The warnings emitted for the i-th consecutive pair (segment ids are distinct).
WarningsOfPair(i) ==
  {k \in 1..Len(warnings) :
     warnings[k].prev = segments[i].id /\ warnings[k].current = segments[i + 1].id}

\* C6: each consecutive pair gets exactly one gap warning when gap > tolerance, exactly
\* one overlap warning when gap < -tolerance, none when |gap| <= tolerance, and there
\* are as many warnings as pairs with |gap| > tolerance.
C6_TimingWarnings ==
  pc = "timed" =>
    LET pairs == 1..(Len(segments) - 1)
    IN /\ \A i \in pairs :
            /\ PairGap(i) > TOLERANCE =>
                 /\ Cardinality(WarningsOfPair(i)) = 1
                 /\ \A k \in WarningsOfPair(i) :
                      warnings[k].kind = "Gap" /\ warnings[k].seconds = PairGap(i)
            /\ PairGap(i) < -TOLERANCE =>
                 /\ Cardinality(WarningsOfPair(i)) = 1
                 /\ \A k \in WarningsOfPair(i) :
                      warnings[k].kind = "Overlap" /\ warnings[k].seconds = -PairGap(i)
            /\ (PairGap(i) <= TOLERANCE /\ PairGap(i) >= -TOLERANCE) => WarningsOfPair(i) = {}
       /\ Len(warnings) = Cardinality({i \in pairs : PairGap(i) > TOLERANCE \/ PairGap(i) < -TOLERANCE})

\* C6 witness: [{0, 5}, {5.2, 3}] gives exactly one gap warning, for 0.2 s.
C6_Witness ==
  /\ pc = "timed"
  /\ Len(segments) = 2
  /\ segments[1].sourceStart = 0 /\ segments[1].duration = 5000
  /\ segments[2].sourceStart = 5200
  /\ warnings = <<[kind |-> "Gap", seconds |-> 200, prev |-> "seg-1", current |-> "seg-2"]>>

(***************************************************************************)
(* The CTA ensurer called repeatedly on one plan.                          *)
(***************************************************************************)
MaxCtaRuns == 3
MaxCtaCandidates == 2

CtaScene == SceneRecord(0, 60000, 8, <<>>, TRUE)

CtaCandidate(i, start, duration) ==
  [index |-> i, segment |-> Segment(i, start, duration),
   scene |-> Get(aggregate_scene_for_segment(Segment(i, start, duration), <<CtaScene>>))]

CtaCandidateLists ==
  UNION {{[i \in 1..n |-> CtaCandidate(i, f[i][1], f[i][2])] :
            f \in [1..n -> {<<0, 10000>>, <<10000, 4005>>, <<20000, 2000>>}]} :
         n \in 0..MaxCtaCandidates}

CtaPlanHighlights ==
  {<<>>,
   <<PlanHighlight("hl-1", 20000, 2000)>>,
   <<PlanHighlight("hl-1", 20000, 2000), PlanHighlight("Outro-CTA", 30000, 2000)>>,
   <<[PlanHighlight("hl-1", 20000, 2000) EXCEPT !.type = "cta"]>>}

InitCta ==
  /\ pc = "cta"
  /\ highlights \in CtaPlanHighlights
  /\ cta_candidates \in CtaCandidateLists
  /\ sfx_catalog \in {Nil, Some(SfxCatalog)}
  /\ segments = <<>>
  /\ warnings = <<>>
  /\ meta_warnings = Nil
  /\ scene_segments = <<>>
  /\ broll_catalog = Nil
  /\ motion_rules = Nil
  /\ plan_segment = Nil
  /\ scene_summary = Nil
  /\ seg_index = 0
  /\ assigned_motion = 0
  /\ seg_before = <<>>
  /\ hl_before = highlights
  /\ scene_cued = {}
  /\ runs = 0
  /\ phrase_in = Nil
  /\ phrase_out = Nil
  /\ srt_entries = <<>>
  /\ timeline = <<>>
  /\ injected = <<>>
  /\ passes = <<>>
  /\ sfx_attached = <<>>
  /\ broll_steps = <<>>
  /\ motion_steps = <<>>
  /\ broll_call = Nil

CallEnsureCta ==
  /\ pc = "cta"
  /\ runs < MaxCtaRuns
  /\ hl_before' = highlights
  /\ highlights' \in ensure_cta_highlight(highlights, cta_candidates, sfx_catalog)
  /\ runs' = runs + 1
  /\ UNCHANGED <<pc, segments, meta_warnings, scene_segments, broll_catalog, sfx_catalog,
                 motion_rules, plan_segment, scene_summary, seg_index, assigned_motion,
                 cta_candidates, warnings, seg_before, scene_cued,
                 phrase_in, phrase_out, srt_entries, timeline, injected, passes,
                 motion_steps, broll_call, sfx_attached, broll_steps>>

NextCta == CallEnsureCta

SpecCta == InitCta /\ [][NextCta]_vars

\* C5: a second run of the CTA ensurer, right after a first, leaves plan.highlights as
\* the first run left it, so the two runs append at most one CTA highlight.
C5_CtaIdempotent == runs >= 2 => highlights = hl_before

\* C5 witness: the first run appended the CTA highlight to a plan that had none, and
\* a second run has been made.
C5_Witness ==
  /\ runs = 2
  /\ Len(highlights) = 2
  /\ highlights[1].id = "hl-1"
  /\ highlights[2].id = "cta_subscribe"

(***************************************************************************)
(* The highlight-driven passes of main on an enriched plan.                *)
(***************************************************************************)
MaxHighlights == 3

HighlightCatalog ==
  [items |-> <<BrollItem("marketing_automation", <<"marketing">>, <<>>, 9000),
               BrollItem("business_strategy", <<"strategy">>, <<>>, 9000)>>]

TextHighlight(id, start, keyword, importance, animation) ==
  [BlankHighlight EXCEPT !.id = id, !.type = "noteBox", !.start = start, !.duration = 2000,
                         !.text = keyword, !.keyword = keyword, !.importance = importance,
                         !.animation = animation]

FinishHighlights ==
  {TextHighlight("hl-1", 1000, "MARKETING", "primary", None),
   [TextHighlight("hl-1", 11000, "DIGITAL MARKETING", "supporting", None)
      EXCEPT !.supportingTexts = [topLeft |-> "TOP 5", topRight |-> None]],
   TextHighlight("hl-1", 21000, "ONLINE MARKETING", "supporting", None),
   TextHighlight("hl-1", 12000, "STRATEGY", "primary", "zoom"),
   TextHighlight("hl-1", Missing, "MARKETING", "primary", None),
   TextHighlight("hl-1", 10000, "OVERVIEW", "supporting", None)}

\* Plans of consecutive 10 s segments as enrich_plan may leave them.
EnrichedPlans ==
  UNION {{[i \in 1..n |-> [Segment(i, (i - 1) * 10000, 10000) EXCEPT
                             !.kind = "normal",
                             !.broll = IF i \in given
                                       THEN Some([id |-> "marketing_automation",
                                                  file |-> "marketing_automation",
                                                  mode |-> "full", confidence |-> 28])
                                       ELSE Nil,
                             !.motionCue = IF i \in given THEN cue ELSE None]] :
            given \in {{}, {1}, {2}}, cue \in {"pan", "zoomIn"}} :
         n \in 1..MaxSegments}

FinishRules ==
  {Nil, Some(EmptyRules),
   Some([motion_frequency |-> Some(3), highlight_rate |-> Some(5),
         zoom_out_keywords |-> Some(<<"overview">>)]),
   Some([motion_frequency |-> Some(10), highlight_rate |-> Nil, zoom_out_keywords |-> Nil])}

InitFinish ==
  /\ pc = "broll_from_highlights"
  /\ segments \in EnrichedPlans
  /\ highlights \in SeqsOf(FinishHighlights, 0, MaxHighlights)
  /\ broll_catalog \in {Nil, Some([items |-> <<>>]), Some(HighlightCatalog)}
  /\ motion_rules \in FinishRules
  /\ sfx_catalog = Nil
  /\ warnings = <<>>
  /\ meta_warnings = Nil
  /\ scene_segments = <<>>
  /\ plan_segment = Nil
  /\ scene_summary = Nil
  /\ seg_index = 0
  /\ assigned_motion = 0
  /\ cta_candidates = <<>>
  /\ seg_before = segments
  /\ hl_before = highlights
  /\ scene_cued = {}
  /\ runs = 0
  /\ phrase_in = Nil
  /\ phrase_out = Nil
  /\ srt_entries = <<>>
  /\ timeline = <<>>
  /\ injected = <<>>
  /\ passes = <<>>
  /\ sfx_attached = <<>>
  /\ broll_steps = <<>>
  /\ motion_steps = <<>>
  /\ broll_call = Nil

NextFinish == CallBrollFromHighlights \/ CallMotionFromHighlights

SpecFinish == InitFinish /\ [][NextFinish]_vars

\* The segments the highlight-driven B-roll pass gave the catalog item `id`.
BrollAssignedByPass(id) ==
  {i \in 1..Len(segments) :
     seg_before[i].broll = Nil /\ segments[i].broll # Nil /\ Get(segments[i].broll).id = id}

\* C4: one run of ensure_broll_from_highlights assigns each catalog id to at most
\* MAX_BROLL_REUSE (2) segments.
C4_BrollReuseCap ==
  pc # "broll_from_highlights" =>
    \A id \in BrollIds : Cardinality(BrollAssignedByPass(id)) <= MAX_BROLL_REUSE

\* C4 witness: three highlights in three segments without B-roll match the same id, the
\* pass gave it to the first two segments and left the third without B-roll.
C4_Witness ==
  /\ pc = "motion_from_highlights"
  /\ Len(segments) = 3
  /\ Len(highlights) = 3
  /\ \A k \in 1..3 :
       /\ highlights[k].start # Missing
       /\ locate_segment(seg_before, highlights[k].start) = k
       /\ seg_before[k].broll = Nil
       /\ match_broll_id(JoinChars(HighlightTextParts(highlights[k]))) = "marketing_automation"
  /\ BrollAssignedByPass("marketing_automation") = {1, 2}
  /\ segments[3].broll = Nil

\* C10: with no motion rules no motion pass assigns or changes a motionCue, and with no
\* B-roll catalog no B-roll pass assigns a broll.
C10_AbsentInputsSkipPasses ==
  /\ ~RulesGiven(motion_rules) =>
       \A i \in 1..Len(segments) : segments[i].motionCue = seg_before[i].motionCue
  /\ ~CatalogGiven(broll_catalog) =>
       \A i \in 1..Len(segments) : segments[i].broll = seg_before[i].broll

\* C16: ensure_motion_from_highlights never discards a cue: a segment that carried a
\* motionCue before the pass carries one after it, and a cue that was in ALLOWED_MOTIONS
\* (zoomIn, zoomOut) before the pass is in ALLOWED_MOTIONS after it.
C16_MotionCueNeverDiscarded ==
  pc = "highlight_sfx" =>
    \A i \in 1..Len(segments) :
       /\ seg_before[i].motionCue # None => segments[i].motionCue # None
       /\ seg_before[i].motionCue \in ALLOWED_MOTIONS => segments[i].motionCue \in ALLOWED_MOTIONS

\* C16 witness: the pass wrote zoomOut over the zoomIn of one segment.
C16_Witness ==
  /\ pc = "highlight_sfx"
  /\ \E i \in 1..Len(segments) :
       seg_before[i].motionCue = "zoomIn" /\ segments[i].motionCue = "zoomOut"

\* The number of segments carrying a motionCue.
CueCount(segs) == Cardinality({i \in 1..Len(segs) : segs[i].motionCue # None})

\* C17: in every state of the loop of ensure_motion_from_highlights `assigned` is the
\* number of segments carrying a motionCue: an iteration that writes over a cue leaves the
\* counter as it was and one that gives a cue-less segment a cue adds exactly one.
C17_AssignedCountsCues ==
  /\ \A k \in 1..Len(motion_steps) : motion_steps[k].assigned = CueCount(motion_steps[k].segs)
  /\ \A k \in 1..(Len(motion_steps) - 1) :
       \A i \in 1..Len(motion_steps[k].segs) :
          With(motion_steps[k].segs[i].motionCue, LAMBDA cue_before :
            With(motion_steps[k + 1].segs[i].motionCue, LAMBDA cue_after :
              cue_before # cue_after =>
                motion_steps[k + 1].assigned =
                  motion_steps[k].assigned + (IF cue_before = None THEN 1 ELSE 0)))

\* C17 witness: the loop wrote over the cue of one segment in one iteration and gave a
\* cue-less segment a cue in another.
C17_Witness ==
  /\ \E k \in 1..(Len(motion_steps) - 1) :
       \E i \in 1..Len(motion_steps[k].segs) :
          /\ motion_steps[k].segs[i].motionCue # None
          /\ motion_steps[k + 1].segs[i].motionCue # motion_steps[k].segs[i].motionCue
          /\ motion_steps[k + 1].assigned = motion_steps[k].assigned
  /\ \E k \in 1..(Len(motion_steps) - 1) :
       \E i \in 1..Len(motion_steps[k].segs) :
          /\ motion_steps[k].segs[i].motionCue = None
          /\ motion_steps[k + 1].segs[i].motionCue # None
          /\ motion_steps[k + 1].assigned = motion_steps[k].assigned + 1

(***************************************************************************)
(* select_keyword_phrase called on its own.                                *)
(***************************************************************************)
PhraseTexts ==
  {"", "timetable", "um the thing", "first one", "the first one", "marketing funnel",
   "Epstein-Barr virus", "go'blin", "apples versus oranges", "it's the one", "AI",
   "Loyal clients, and friends!", "go'go'go'go'go'go'go'go'go'go'go'go'go'goblin"}

PhraseMaxChars == {1, 5, 42}

\* What the tagger may answer for n tokens: nothing without a tagger, else any tags.
TagChoices(n) == {Nil} \cup {Some(t) : t \in [1..n -> PosTags]}

PhraseCalls ==
  UNION {{[text |-> text, max_tokens |-> max_tokens, max_chars |-> max_chars, tags |-> tags] :
            tags \in TagChoices(Len(RawCandidates(FindAll(Spell(text), AlnumChars \cup {"'"}),
                                                  max_tokens, {}, <<>>))),
            max_chars \in PhraseMaxChars} :
         text \in PhraseTexts, max_tokens \in 1..MAX_KEYWORD_TOKENS}

InitPhrase ==
  /\ pc = "phrase"
  /\ phrase_in \in {Some(c) : c \in PhraseCalls}
  /\ phrase_out = Nil
  /\ segments = <<>>
  /\ highlights = <<>>
  /\ warnings = <<>>
  /\ meta_warnings = Nil
  /\ scene_segments = <<>>
  /\ broll_catalog = Nil
  /\ sfx_catalog = Nil
  /\ motion_rules = Nil
  /\ plan_segment = Nil
  /\ scene_summary = Nil
  /\ seg_index = 0
  /\ assigned_motion = 0
  /\ cta_candidates = <<>>
  /\ seg_before = <<>>
  /\ hl_before = <<>>
  /\ scene_cued = {}
  /\ runs = 0
  /\ srt_entries = <<>>
  /\ timeline = <<>>
  /\ injected = <<>>
  /\ passes = <<>>
  /\ sfx_attached = <<>>
  /\ broll_steps = <<>>
  /\ motion_steps = <<>>
  /\ broll_call = Nil

CallSelectKeywordPhrase ==
  /\ pc = "phrase"
  /\ phrase_out' = select_keyword_phrase(Spell(Get(phrase_in).text), Get(phrase_in).max_tokens,
                                         Get(phrase_in).max_chars, Get(phrase_in).tags)
  /\ pc' = "phrased"
  /\ UNCHANGED <<segments, highlights, meta_warnings, scene_segments, broll_catalog,
                 sfx_catalog, motion_rules, plan_segment, scene_summary, seg_index,
                 assigned_motion, cta_candidates, warnings, seg_before, hl_before, scene_cued,
                 runs, phrase_in, srt_entries, timeline, injected, passes,
                 motion_steps, broll_call, sfx_attached, broll_steps>>

NextPhrase == CallSelectKeywordPhrase

SpecPhrase == InitPhrase /\ [][NextPhrase]_vars

\* The upper-cased alphanumeric tokens of a phrase.
PhraseTokens(phrase) == FindAll(UpperChars(phrase), AlnumChars)

\* A text every token of which is a filler word, a stop word or a generic token.
OnlyFillerStopGeneric(text) ==
  \A token \in SeqToSet(FindAll(text, AlnumChars \cup {"'"})) :
     LET normalized == KeepChars(LowerChars(token), LowerAlnumChars)
     IN \/ normalized \in FillerWordChars
        \/ normalized \in StopWordChars
        \/ UpperChars(normalized) \in GenericSkipChars

\* C8: select_keyword_phrase returns None or a non-empty phrase that has a token, is not
\* made of generic tokens only and is not FIRST ONE; it returns None for a text made only
\* of filler, stop and generic tokens.
C8_PhraseMeaningfulOrAbsent ==
  pc = "phrased" =>
    /\ phrase_out # Nil =>
         /\ Get(phrase_out) # <<>>
         /\ PhraseTokens(Get(phrase_out)) # <<>>
         /\ \E token \in SeqToSet(PhraseTokens(Get(phrase_out))) : token \notin GenericSkipChars
         /\ PhraseTokens(Get(phrase_out)) # <<Spell("FIRST"), Spell("ONE")>>
    /\ OnlyFillerStopGeneric(Spell(Get(phrase_in).text)) => phrase_out = Nil

(***************************************************************************)
(* The two synthesis passes of main, on any plan highlights, overlay       *)
(* timeline and subtitle file.                                             *)
(***************************************************************************)
MaxTimelineEntries == 2
MaxSrtBlocks == 2

NoContent ==
  [kind |-> "none", text |-> None, keyword |-> None, title |-> None, heading |-> None,
   label |-> None, items |-> <<>>, top_left |-> None, topLeft |-> None, left |-> None,
   primary |-> None, top_right |-> None, topRight |-> None, right |-> None,
   secondary |-> None, top_center |-> None, topCenter |-> None]

TextContent(text) == [NoContent EXCEPT !.kind = "str", !.text = text]

Overlay(type, content) ==
  [type |-> type, content |-> content, duration_seconds |-> Missing, duration |-> Missing,
   length |-> Missing]

TimelineEntry(timestamp, script, elements) ==
  [timestamp |-> timestamp, script |-> script, text |-> None, duration_seconds |-> Missing,
   duration |-> Missing, length |-> Missing, elements |-> elements]

NumberStamp(ms) == [kind |-> "number", number |-> ms, parts |-> <<>>]
TextStamp(parts) == [kind |-> "text", number |-> 0, parts |-> parts]
NoStamp == [kind |-> "none", number |-> 0, parts |-> <<>>]

SynthTimelineEntries ==
  {TimelineEntry(NumberStamp(2100), None, <<Overlay("text_overlay", TextContent("marketing funnel"))>>),
   TimelineEntry(TextStamp(<<0, 9005>>), "timetable",
                 <<Overlay("image", NoContent),
                   Overlay("text_overlay",
                           [NoContent EXCEPT !.kind = "dict",
                                             !.keyword = "Loyal clients, and friends!",
                                             !.items = <<"apples versus oranges", "timetable">>])>>),
   TimelineEntry(NoStamp, "timetable", <<Overlay("text_overlay", TextContent("timetable"))>>),
   TimelineEntry(NumberStamp(30000), "um the thing", <<Overlay("text_overlay", NoContent)>>)}

SrtBlock(index, start, end, text) == [index |-> index, start |-> start, end |-> end, text |-> text]

SynthSrtBlocks ==
  {SrtBlock(1, 2140, 4140, "Epstein virus"),
   SrtBlock(2, 635, 2140, "marketing funnel"),
   SrtBlock(3, 300, 900, "timetable"),
   SrtBlock(Missing, 5000, Missing, "timetable"),
   SrtBlock(4, 8000, 9000, "thanks for watching"),
   SrtBlock(2, 8000, 10000, "Loyal clients, and friends!"),
   SrtBlock(3, 12000, 14000, "Epstein-Barr virus")}

\* Highlights of the plan as enrich_plan leaves them: the planner's, sorted by start,
\* then the CTA highlight appended at the end of the list.
SynthPlanHighlights ==
  {<<>>,
   <<PlanHighlight("hl-1", 2000, 2000)>>,
   <<PlanHighlight("hl-1", 20000, 2000),
     [BlankHighlight EXCEPT !.id = "cta_subscribe", !.type = "sectionTitle", !.start = 7000,
                            !.duration = 4000, !.position = "center", !.animation = "float",
                            !.variant = "brand", !.sfx = DEFAULT_APPLAUSE, !.volume = 7,
                            !.text = "Dang ky kenh de nhan video moi!"]>>}

InitSynth ==
  /\ pc = "catalog"
  /\ highlights \in SynthPlanHighlights
  /\ timeline \in SeqsOf(SynthTimelineEntries, 0, MaxTimelineEntries)
  /\ srt_entries \in SeqsOf(SynthSrtBlocks, 0, MaxSrtBlocks)
  /\ injected = <<>>
  /\ passes = <<>>
  /\ sfx_attached = <<>>
  /\ broll_steps = <<>>
  /\ motion_steps = <<>>
  /\ broll_call = Nil
  /\ segments = <<>>
  /\ warnings = <<>>
  /\ meta_warnings = Nil
  /\ scene_segments = <<>>
  /\ broll_catalog = Nil
  /\ sfx_catalog = Nil
  /\ motion_rules = Nil
  /\ plan_segment = Nil
  /\ scene_summary = Nil
  /\ seg_index = 0
  /\ assigned_motion = 0
  /\ cta_candidates = <<>>
  /\ seg_before = <<>>
  /\ hl_before = highlights
  /\ scene_cued = {}
  /\ runs = 0
  /\ phrase_in = Nil
  /\ phrase_out = Nil

NextSynth == CallAugmentFromCatalog \/ CallAugmentFromSrt

SpecSynth == InitSynth /\ [][NextSynth]_vars

\* C1: when a synthesis pass has returned, plan.highlights is sorted ascending by start.
C1_HighlightsSortedAfterPass ==
  pc \in {"srt", "trim"} =>
    \A i, j \in 1..Len(highlights) : i < j => highlights[i].start <= highlights[j].start

\* C2: any two highlights injected by one run of the subtitle pass have windows
\* [start, start + duration) that do not overlap and starts more than the minimum gap apart.
C2_SrtInjectedDisjoint ==
  pc = "trim" =>
    \A i, j \in 1..Len(injected) :
       i < j =>
         /\ \/ injected[i].start + injected[i].duration <= injected[j].start
            \/ injected[j].start + injected[j].duration <= injected[i].start
         /\ \/ injected[i].start - injected[j].start > SRT_MIN_GAP
            \/ injected[j].start - injected[i].start > SRT_MIN_GAP

\* C18: when augment_highlights_from_catalog appends a highlight, its window
\* [start, start + duration) overlaps the window of no highlight already in the list, and
\* its start is more than the minimum gap (0.4 s) from the start of each of them.
C18_CatalogAppendDisjoint ==
  pc = "srt" =>
    \A k \in 1..Len(injected) :
       \A present \in SeqToSet(hl_before) \cup {injected[j] : j \in 1..(k - 1)} :
          present.start # Missing =>
            /\ \/ injected[k].start + injected[k].duration <= present.start
               \/ present.start + Max(0, present.duration) <= injected[k].start
            /\ \/ injected[k].start - present.start > CATALOG_MIN_GAP
               \/ present.start - injected[k].start > CATALOG_MIN_GAP

(***************************************************************************)
(* The side toggle of the synthesis passes, on overlays and subtitles with *)
(* one supporting text.                                                    *)
(***************************************************************************)
MaxToggleEntries == 3

SidedContent(keyword, top_left, top_right) ==
  [NoContent EXCEPT !.kind = "dict", !.keyword = keyword, !.topLeft = top_left,
                    !.topRight = top_right]

\* An overlay with a right text only, one with both side texts, and an image followed by
\* an overlay with a left text only.
ToggleTimelineEntries ==
  {TimelineEntry(NumberStamp(30000), None,
                 <<Overlay("text_overlay", SidedContent("marketing funnel", None, "timetable"))>>),
   TimelineEntry(NumberStamp(40000), None,
                 <<Overlay("text_overlay",
                           [NoContent EXCEPT !.kind = "dict",
                                             !.keyword = "Loyal clients, and friends!",
                                             !.items = <<"apples versus oranges", "timetable">>])>>),
   TimelineEntry(NumberStamp(50000), None,
                 <<Overlay("image", NoContent),
                   Overlay("text_overlay", SidedContent("marketing funnel", "timetable", None))>>)}

ToggleSrtBlocks ==
  {SrtBlock(1, 2000, 4000, "Loyal clients, and friends!"),
   SrtBlock(2, 6000, 8000, "Epstein-Barr virus"),
   SrtBlock(3, 14000, 16000, "marketing funnel and timetable")}

InitToggle ==
  /\ pc = "catalog"
  /\ highlights \in {<<>>, <<PlanHighlight("hl-1", 2000, 2000)>>}
  /\ timeline \in SeqsOf(ToggleTimelineEntries, 0, MaxToggleEntries)
  /\ srt_entries \in SeqsOf(ToggleSrtBlocks, 0, MaxToggleEntries)
  /\ injected = <<>>
  /\ passes = <<>>
  /\ sfx_attached = <<>>
  /\ broll_steps = <<>>
  /\ motion_steps = <<>>
  /\ broll_call = Nil
  /\ segments = <<>>
  /\ warnings = <<>>
  /\ meta_warnings = Nil
  /\ scene_segments = <<>>
  /\ broll_catalog = Nil
  /\ sfx_catalog = Nil
  /\ motion_rules = Nil
  /\ plan_segment = Nil
  /\ scene_summary = Nil
  /\ seg_index = 0
  /\ assigned_motion = 0
  /\ cta_candidates = <<>>
  /\ seg_before = <<>>
  /\ hl_before = highlights
  /\ scene_cued = {}
  /\ runs = 0
  /\ phrase_in = Nil
  /\ phrase_out = Nil

SpecToggle == InitToggle /\ [][NextSynth]_vars

\* The highlights with a supporting text on one side only.
SingleSided(hls) == SelectSeq(hls, LAMBDA h : h.layout \in {"left", "right"})

\* The highlight has its one supporting text under the key of `side`.
TextOnSide(highlight, side) ==
  /\ highlight.layout = side
  /\ (highlight.supportingTexts.topLeft # None) = (side = "left")
  /\ (highlight.supportingTexts.topRight # None) = (side = "right")

\* C19: of the single-sided highlights a synthesis pass (catalog or subtitle) injected,
\* the k-th is 'left' for odd k and 'right' for even k, with its one supporting text under
\* the key of that side: the toggle flips at each of them and at nothing else (a dual or
\* bottom highlight, a rejected entry).
C19_SideToggleAlternates ==
  pc \in {"srt", "trim"} =>
    \A k \in 1..Len(SingleSided(injected)) :
       TextOnSide(SingleSided(injected)[k], IF k % 2 = 1 THEN "left" ELSE "right")

\* C19 witness: the subtitle pass injected a left, then a dual, then a right highlight, and
\* the catalog pass before it had injected a left and a right one with a rejected
\* duplicate between them.
C19_Witness ==
  /\ pc = "trim"
  /\ Len(injected) = 3
  /\ injected[1].layout = "left"
  /\ injected[2].layout = "dual"
  /\ injected[3].layout = "right"
  /\ Len(timeline) = 3
  /\ timeline[1] = timeline[2]
  /\ \E a, b \in 1..Len(highlights) :
       /\ highlights[a].id = "kb-000-00" /\ highlights[a].layout = "left"
       /\ highlights[b].id = "kb-002-01" /\ highlights[b].layout = "right"

(***************************************************************************)
(* select_broll called on its own, with any threshold (--broll-threshold). *)
(***************************************************************************)
MaxBrollItems == 3

\* Scenes of 10 s with a highlight score of 0.8, 0.6 and 0.5 (the weighted sum of the
\* scores, in tenths, over the weight of 10000 ms).
BrollScenes ==
  {[start |-> 0, end |-> 10000, topics |-> <<"Marketing">>,
    highlight_score |-> [num |-> score * 10000, den |-> 10000], motion_candidates |-> <<>>,
    tokens |-> <<"seo">>, text |-> <<>>, cta |-> FALSE, sfx_hints |-> <<>>]
   : score \in {8, 6, 5}}

\* Two items with the same score, an item that scores 0, a high-scoring item shorter than
\* 80% of the scene, and an item of exactly 80% of the scene that scores 0.4.
BrollCallItems ==
  {BrollItem("marketing_automation", <<"marketing">>, <<>>, 9000),
   BrollItem("digital_network", <<"marketing">>, <<>>, 20000),
   [BrollItem("data_visualization", <<"strategy">>, <<>>, 9000)
      EXCEPT !.mood = <<>>, !.mediaType = "image", !.orientation = "portrait"],
   BrollItem("business_strategy", <<"marketing">>, <<"SEO">>, 7000),
   [BrollItem("team_collaboration", <<"strategy">>, <<>>, 8000) EXCEPT !.mood = <<>>]}

\* Thresholds in tenths: 0, 0.4, the default 1.5, and 3.3.
BrollThresholds == {0, 4, BROLL_THRESHOLD, 33}

InitBroll ==
  /\ pc = "select_broll"
  /\ scene_summary \in {Some(scene) : scene \in BrollScenes}
  /\ broll_catalog \in {Some([items |-> items]) : items \in SeqsOf(BrollCallItems, 0, MaxBrollItems)}
  /\ broll_call = Nil
  /\ segments = <<>>
  /\ highlights = <<>>
  /\ warnings = <<>>
  /\ meta_warnings = Nil
  /\ scene_segments = <<>>
  /\ sfx_catalog = Nil
  /\ motion_rules = Nil
  /\ plan_segment = Nil
  /\ seg_index = 0
  /\ assigned_motion = 0
  /\ cta_candidates = <<>>
  /\ seg_before = <<>>
  /\ hl_before = <<>>
  /\ scene_cued = {}
  /\ runs = 0
  /\ phrase_in = Nil
  /\ phrase_out = Nil
  /\ srt_entries = <<>>
  /\ timeline = <<>>
  /\ injected = <<>>
  /\ passes = <<>>
  /\ sfx_attached = <<>>
  /\ broll_steps = <<>>
  /\ motion_steps = <<>>

\* select_broll(scene_summary, broll_catalog, threshold)
CallSelectBroll ==
  /\ pc = "select_broll"
  /\ \E threshold \in BrollThresholds :
        broll_call' = Some([threshold |-> threshold,
                            result |-> select_broll(Get(scene_summary), Get(broll_catalog),
                                                    threshold)])
  /\ pc' = "selected"
  /\ UNCHANGED <<segments, highlights, meta_warnings, scene_segments, broll_catalog,
                 sfx_catalog, motion_rules, plan_segment, scene_summary, seg_index,
                 assigned_motion, cta_candidates, warnings, seg_before, hl_before,
                 scene_cued, runs, phrase_in, phrase_out, srt_entries, timeline, injected,
                 passes, motion_steps, sfx_attached, broll_steps>>

NextBroll == CallSelectBroll

SpecBroll == InitBroll /\ [][NextBroll]_vars

\* The catalog items whose duration is at least 80% of the scene duration, in catalog order.
LongEnough(items, scene) ==
  SelectSeq(items, LAMBDA item : item.duration * 10 >= SceneDuration(scene) * 8)

\* The highest score among the items (of a non-empty list).
MaxScore(items, scene) ==
  CHOOSE m \in {score_broll_item(items[k], scene) : k \in 1..Len(items)} :
     \A k \in 1..Len(items) : score_broll_item(items[k], scene) <= m

\* The item returned is the first of `items` with the highest score.
FirstWithMaxScore(result, items, scene) ==
  \E k \in 1..Len(items) :
     /\ items[k].id = result.id
     /\ score_broll_item(items[k], scene) = MaxScore(items, scene)
     /\ result.confidence = MaxScore(items, scene)
     /\ \A j \in 1..(k - 1) :
          /\ score_broll_item(items[j], scene) < MaxScore(items, scene)
          /\ items[j].id # result.id

\* C20: select_broll returns an item if and only if, among the catalog items whose
\* duration is at least 80% of the scene duration, the highest score is >= threshold and
\* the scene highlight score is >= 0.6; the item returned is the first in catalog order
\* with the highest score.
C20_SelectBrollIffAboveThreshold ==
  pc = "selected" =>
    With(LongEnough(Get(broll_catalog).items, Get(scene_summary)), LAMBDA candidates :
      /\ (Get(broll_call).result # Nil) <=>
           (/\ candidates # <<>>
            /\ MaxScore(candidates, Get(scene_summary)) >= Get(broll_call).threshold
            /\ ScoreGE(Get(scene_summary).highlight_score, 6))
      /\ Get(broll_call).result # Nil =>
           FirstWithMaxScore(Get(Get(broll_call).result), candidates, Get(scene_summary)))

(***************************************************************************)
(* main: a full run, from enrich_plan to the plan that is written.         *)
(***************************************************************************)
MainTimes == <<<<0, 10000>>, <<10000, 4000>>, <<50000, 6000>>, <<56000, 4000>>>>

MainPlans == {[i \in 1..n |-> Segment(i, MainTimes[i][1], MainTimes[i][2])] : n \in 1..MaxSegments}

\* The optional inputs and the planner's highlights.
MainOptionalInputs ==
  {[broll |-> Nil, sfx |-> Nil, highlights |-> <<>>],
   [broll |-> Some(SceneBrollCatalog), sfx |-> Some(SfxCatalog),
    highlights |-> <<TextHighlight("hl-1", 11000, "MARKETING", "primary", None),
                     TextHighlight("hl-2", 51000, "ONLINE MARKETING", "supporting", None)>>],
   [broll |-> Nil, sfx |-> Some(SfxCatalog),
    highlights |-> <<PlanHighlight("hl-1", 1000, 2000)>>]}

\* plan.meta.warnings: absent, or a list a planner left.
MainMetaWarnings ==
  {Nil, Some(<<[kind |-> "Planner", seconds |-> 0, prev |-> "seg-1", current |-> "seg-1"]>>)}

MainTimelines ==
  {<<>>,
   <<TimelineEntry(NumberStamp(2100), None,
                   <<Overlay("text_overlay", TextContent("marketing funnel"))>>)>>}

MainSrtFiles == {<<>>, <<SrtBlock(1, 2140, 4140, "Epstein virus")>>}

InitMain ==
  /\ pc = "enrich_loop"
  /\ segments \in MainPlans
  /\ \E opt \in MainOptionalInputs :
        /\ highlights = opt.highlights
        /\ broll_catalog = opt.broll
        /\ sfx_catalog = opt.sfx
  /\ meta_warnings \in MainMetaWarnings
  /\ scene_segments \in SeqsOf(EnrichSceneRecords, 0, MaxSceneRecords)
  /\ motion_rules \in EnrichRules
  /\ timeline \in MainTimelines
  /\ srt_entries \in MainSrtFiles
  /\ plan_segment = Nil
  /\ scene_summary = Nil
  /\ seg_index = 1
  /\ assigned_motion = 0
  /\ cta_candidates = <<>>
  /\ warnings = <<>>
  /\ seg_before = segments
  /\ hl_before = highlights
  /\ scene_cued = {}
  /\ runs = 0
  /\ phrase_in = Nil
  /\ phrase_out = Nil
  /\ injected = <<>>
  /\ passes = <<>>
  /\ sfx_attached = <<>>
  /\ broll_steps = <<>>
  /\ motion_steps = <<>>
  /\ broll_call = Nil

NextMain ==
  \/ EnrichSegment
  \/ EnrichFinish
  \/ CallAugmentFromCatalog
  \/ CallAugmentFromSrt
  \/ CallTrimHighlights
  \/ CallBrollFromHighlights
  \/ CallMotionFromHighlights
  \/ CallHighlightSfx
  \/ CallStripSfx

SpecMain == InitMain /\ [][NextMain]_vars

\* C12: when enrich_plan has returned, every timing warning it computed is in
\* plan.meta.warnings, whatever plan.meta held before.
C12_WarningsInPlanMeta ==
  pc \notin {"enrich_loop", "raised"} =>
    \A k \in 1..Len(warnings) : meta_warnings # Nil /\ InSeq(warnings[k], Get(meta_warnings))


\* The passes of a run that change segments or highlights.
MutatingPasses ==
  {"scene_pass", "ensure_cta_highlight", "augment_highlights_from_catalog",
   "augment_highlights_from_srt", "trim_highlights_to_segments",
   "ensure_broll_from_highlights", "ensure_motion_from_highlights",
   "ensure_highlight_sfx", "strip_non_section_sfx"}

\* C13: in a full run the timing validator has run, and it ran after every mutating
\* pass of the run.
C13_TimingValidatorRunsLast ==
  pc = "written" =>
    \E k \in 1..Len(passes) :
       /\ passes[k] = "compute_timing_warnings"
       /\ \A j \in 1..Len(passes) : passes[j] \in MutatingPasses => j < k


\* The segments of the plan that carry the catalog item `id`, whichever pass gave it.
BrollCarriers(id) ==
  {i \in 1..Len(segments) : segments[i].broll # Nil /\ Get(segments[i].broll).id = id}

\* C14: after the scene-driven selection and the highlight-driven match-by-keyword, a
\* catalog id that match-by-keyword gave to a segment is carried by at most
\* MAX_BROLL_REUSE (2) segments of the plan, whichever pass assigned it.
C14_BrollReuseCapWholePlan ==
  pc = "motion_from_highlights" =>
    \A id \in BrollIds :
       BrollAssignedByPass(id) # {} => Cardinality(BrollCarriers(id)) <= MAX_BROLL_REUSE

\* The segments that carry a motionCue.
MotionCarriers == {i \in 1..Len(segments) : segments[i].motionCue # None}

\* C15: for rules with a frequency f (0.5, the default of the highlight-driven pass,
\* when the rules omit it), after the scene-driven pass and the highlight-driven pass
\* at most max(1, ceil(n * f)) of the n >= 1 segments carry a motionCue.
C15_SharedMotionBudget ==
  (/\ pc \in {"highlight_sfx", "strip_sfx", "written"}
   /\ Len(segments) >= 1
   /\ RulesGiven(motion_rules))
    => Cardinality(MotionCarriers)
         <= Max(1, CeilDiv(Len(segments) * RuleGet(Get(motion_rules), "motion_frequency", 5), 10))

(***************************************************************************)
(* A full run on scene records that name motions of their own.  The plans  *)
(* carry no motionCue when the run begins: every cue is one the run wrote. *)
(***************************************************************************)
MOTION_CUES == {"zoomIn", "zoomOut", "pan", "shake"}

CueSceneRecords ==
  {SceneRecord(0, 10000, 8, <<"zoom-in">>, FALSE),
   SceneRecord(0, 10000, 8, <<"slide up">>, FALSE),
   SceneRecord(10000, 14000, 3, <<"Shake">>, FALSE),
   SceneRecord(50000, 56000, 5, <<>>, FALSE)}

CueHighlights ==
  {<<>>,
   <<TextHighlight("hl-1", 1000, "MARKETING", "primary", None),
     TextHighlight("hl-2", 11000, "OVERVIEW", "supporting", None)>>}

InitCues ==
  /\ pc = "enrich_loop"
  /\ segments \in MainPlans
  /\ highlights \in CueHighlights
  /\ scene_segments \in SeqsOf(CueSceneRecords, 0, MaxSceneRecords)
  /\ motion_rules \in EnrichRules
  /\ broll_catalog = Nil
  /\ sfx_catalog = Nil
  /\ meta_warnings = Nil
  /\ timeline = <<>>
  /\ srt_entries = <<>>
  /\ plan_segment = Nil
  /\ scene_summary = Nil
  /\ seg_index = 1
  /\ assigned_motion = 0
  /\ cta_candidates = <<>>
  /\ warnings = <<>>
  /\ seg_before = segments
  /\ hl_before = highlights
  /\ scene_cued = {}
  /\ runs = 0
  /\ phrase_in = Nil
  /\ phrase_out = Nil
  /\ injected = <<>>
  /\ passes = <<>>
  /\ sfx_attached = <<>>
  /\ broll_steps = <<>>
  /\ motion_steps = <<>>
  /\ broll_call = Nil

SpecCues == InitCues /\ [][NextMain]_vars

\* C21: every motionCue the run writes to a segment, in the scene-driven pass or in the
\* highlight-driven pass, is one of zoomIn, zoomOut, pan, shake, whatever names the scene
\* records list as motionCandidates.
C21_MotionCueInEnum ==
  \A i \in 1..Len(segments) :
     segments[i].motionCue # None => segments[i].motionCue \in MOTION_CUES

(***************************************************************************)
(* The SFX passes of main on their own: attach, then strip.                *)
(***************************************************************************)
MaxSfxHighlights == 2

\* A catalog that lists its files by category only, one with pop.mp3 alone, and one with
\* every file the rules name.
SfxCatalogs ==
  {Nil,
   Some([items |-> <<>>,
         categories |-> <<[id |-> "ui", items |-> <<[id |-> "pop", file |-> "assets/sfx/ui/pop.mp3"]>>]>>]),
   Some(SfxCatalog),
   Some([items |-> <<[id |-> "pop", file |-> "assets/sfx/ui/pop.mp3"],
                     [id |-> "applause", file |-> "assets/sfx/emotion/applause.mp3"]>>,
         categories |-> <<>>])}

\* Highlights with a text of the rule table and any metadata.audio a plan may carry, a
\* highlight that has an sfx already, and the CTA section title.
SfxHighlights ==
  {[TextHighlight("hl-1", 1000, "LOYAL CLIENTS", "primary", None) EXCEPT !.audio = audio]
     : audio \in {None, "keep", "mute"}}
  \cup
  {TextHighlight("hl-2", 5000, "HONEST", "primary", None),
   TextHighlight("hl-2", 5000, "MARKETING", "primary", None),
   [TextHighlight("hl-2", 5000, "MARKETING", "primary", None)
      EXCEPT !.sfx = "assets/sfx/ui/pop.mp3", !.gain = 0 - 25],
   [BlankHighlight EXCEPT !.id = "cta_subscribe", !.type = "sectionTitle", !.start = 7000,
                          !.duration = 4000, !.position = "center", !.animation = "float",
                          !.variant = "brand", !.sfx = DEFAULT_APPLAUSE, !.volume = 7,
                          !.text = "Dang ky kenh de nhan video moi!"]}

InitSfx ==
  /\ pc = "highlight_sfx"
  /\ highlights \in SeqsOf(SfxHighlights, 0, MaxSfxHighlights)
  /\ sfx_catalog \in SfxCatalogs
  /\ segments = <<>>
  /\ broll_catalog = Nil
  /\ motion_rules = Nil
  /\ scene_segments = <<>>
  /\ meta_warnings = Nil
  /\ timeline = <<>>
  /\ srt_entries = <<>>
  /\ plan_segment = Nil
  /\ scene_summary = Nil
  /\ seg_index = 0
  /\ assigned_motion = 0
  /\ cta_candidates = <<>>
  /\ warnings = <<>>
  /\ seg_before = <<>>
  /\ hl_before = highlights
  /\ scene_cued = {}
  /\ runs = 0
  /\ phrase_in = Nil
  /\ phrase_out = Nil
  /\ injected = <<>>
  /\ passes = <<>>
  /\ sfx_attached = <<>>
  /\ broll_steps = <<>>
  /\ motion_steps = <<>>
  /\ broll_call = Nil

NextSfx == CallHighlightSfx \/ CallStripSfx

SpecSfx == InitSfx /\ [][NextSfx]_vars

\* A rule of the table has a keyword in the highlight's combined text.
SfxRuleMatches(highlight, r) ==
  \E keyword \in HIGHLIGHT_SFX_RULES[r].keywords :
     ContainsChars(SfxCombinedText(highlight), Spell(keyword))

\* C22: with an SFX catalog supplied, every path ensure_highlight_sfx attaches is in the
\* catalog's set of available files, and a highlight whose matching rules all name paths
\* outside the catalog is given no sfx.
C22_AttachedSfxInCatalog ==
  (pc = "strip_sfx" /\ sfx_catalog # Nil) =>
    \A i \in 1..Len(highlights) :
       /\ sfx_attached[i] # Nil => Lower(Get(sfx_attached[i]).sfx) \in AvailableSfx(sfx_catalog)
       /\ (\A r \in 1..Len(HIGHLIGHT_SFX_RULES) :
             SfxRuleMatches(highlights[i], r) =>
               Lower(HIGHLIGHT_SFX_RULES[r].sfx) \notin AvailableSfx(sfx_catalog))
          => sfx_attached[i] = Nil

PRESERVED_AUDIO == {"auto", "keep", "accent"}

\* C23: an sfx and gain that ensure_highlight_sfx attached are on the highlight after
\* strip_non_section_sfx, whatever metadata the highlight had; and after the strip pass a
\* highlight that is no section title has an sfx only if its metadata.audio marks the
\* audio as preserved.
C23_AttachedSfxSurvivesStrip ==
  pc = "written" =>
    \A i \in 1..Len(highlights) :
       /\ sfx_attached[i] # Nil =>
            /\ highlights[i].sfx = Get(sfx_attached[i]).sfx
            /\ highlights[i].gain = Get(sfx_attached[i]).gain
       /\ (highlights[i].type # "sectionTitle" /\ highlights[i].sfx # None) =>
            highlights[i].audio \in PRESERVED_AUDIO

(***************************************************************************)
(* enrich_plan and its CTA highlight, on segments with times given to the  *)
(* millisecond.                                                            *)
(***************************************************************************)
CtaRunTimes == {<<0, 10000>>, <<10000, 4000>>, <<20004, 2000>>, <<40000, 5000>>}

CtaRunSceneRecords ==
  {SceneRecord(0, 30000, 8, <<>>, TRUE),
   SceneRecord(0, 10000, 8, <<>>, TRUE),
   SceneRecord(0, 30000, 3, <<>>, FALSE)}

CtaRunHighlights ==
  {<<>>,
   <<PlanHighlight("hl-1", 1000, 2000)>>,
   <<PlanHighlight("Outro-CTA", 30000, 2000)>>}

InitCtaRun ==
  /\ pc = "enrich_loop"
  /\ segments \in PlansOf(CtaRunTimes, 1, MaxSegments)
  /\ highlights \in CtaRunHighlights
  /\ scene_segments \in SeqsOf(CtaRunSceneRecords, 0, MaxSceneRecords)
  /\ sfx_catalog \in {Nil, Some(SfxCatalog)}
  /\ broll_catalog = Nil
  /\ motion_rules = Nil
  /\ meta_warnings = Nil
  /\ plan_segment = Nil
  /\ scene_summary = Nil
  /\ seg_index = 1
  /\ assigned_motion = 0
  /\ cta_candidates = <<>>
  /\ warnings = <<>>
  /\ seg_before = segments
  /\ hl_before = highlights
  /\ scene_cued = {}
  /\ runs = 0
  /\ phrase_in = Nil
  /\ phrase_out = Nil
  /\ srt_entries = <<>>
  /\ timeline = <<>>
  /\ injected = <<>>
  /\ passes = <<>>
  /\ sfx_attached = <<>>
  /\ broll_steps = <<>>
  /\ motion_steps = <<>>
  /\ broll_call = Nil

SpecCtaRun == InitCtaRun /\ [][NextEnrich]_vars

\* The segments whose aggregate has the cta flag.
CtaFlagged ==
  {i \in 1..Len(segments) :
     With(aggregate_scene_for_segment(segments[i], scene_segments), LAMBDA summary :
       summary # Nil /\ Get(summary).cta)}

LastOf(S) == CHOOSE i \in S : \A j \in S : j <= i

\* C24: when no highlight looks like a CTA and some segment's aggregate is flagged cta,
\* ensure_cta_highlight appends exactly one sectionTitle highlight, built from the last
\* flagged segment of the plan, with its start in [sourceStart, sourceStart + duration]
\* of that segment; with no flagged segment it appends nothing.
C24_CtaFromLastFlaggedSegment ==
  pc = "catalog" =>
    /\ (~HasCtaHighlight(hl_before) /\ CtaFlagged # {}) =>
         /\ Len(highlights) = Len(hl_before) + 1
         /\ \A k \in 1..Len(hl_before) : highlights[k] = hl_before[k]
         /\ With(highlights[Len(highlights)], LAMBDA cta :
            With(segments[LastOf(CtaFlagged)], LAMBDA segment :
              /\ cta.type = "sectionTitle"
              /\ cta.start >= segment.sourceStart
              /\ cta.start <= segment.sourceStart + segment.duration))
    /\ CtaFlagged = {} => highlights = hl_before

(***************************************************************************)
(* The subtitle-driven pass on subtitle files whose blocks are numbered    *)
(* apart, in any order of time.                                            *)
(***************************************************************************)
OrderSrtBlocks ==
  {SrtBlock(1, 2140, 4140, "Epstein virus"),
   SrtBlock(2, 635, 2140, "marketing funnel"),
   SrtBlock(3, 300, 900, "timetable"),
   SrtBlock(4, 8000, 9000, "thanks for watching"),
   SrtBlock(5, 5000, 7000, "Marketing funnel!"),
   SrtBlock(6, 12000, 14000, "Epstein-Barr virus")}

InitSrt ==
  /\ pc = "catalog"
  /\ highlights \in SynthPlanHighlights
  /\ timeline \in SeqsOf(SynthTimelineEntries, 0, 1)
  /\ srt_entries \in SeqsOf(OrderSrtBlocks, 0, MaxSrtBlocks)
  /\ injected = <<>>
  /\ passes = <<>>
  /\ sfx_attached = <<>>
  /\ broll_steps = <<>>
  /\ motion_steps = <<>>
  /\ broll_call = Nil
  /\ segments = <<>>
  /\ warnings = <<>>
  /\ meta_warnings = Nil
  /\ scene_segments = <<>>
  /\ broll_catalog = Nil
  /\ sfx_catalog = Nil
  /\ motion_rules = Nil
  /\ plan_segment = Nil
  /\ scene_summary = Nil
  /\ seg_index = 0
  /\ assigned_motion = 0
  /\ cta_candidates = <<>>
  /\ seg_before = <<>>
  /\ hl_before = highlights
  /\ scene_cued = {}
  /\ runs = 0
  /\ phrase_in = Nil
  /\ phrase_out = Nil

SpecSrt == InitSrt /\ [][NextSynth]_vars

\* The entry of the subtitle file an injected highlight was made from.
EntryOf(highlight) ==
  With(parse_srt_file(srt_entries), LAMBDA entries :
    entries[CHOOSE k \in 1..Len(entries) : SrtId(entries[k].index) = highlight.id])

\* normalized_sentence of an entry.
NormalizedSentence(entry) ==
  LowerChars(JoinChars(FindAll(Spell(entry.text), AlnumChars \cup {"'", "%", "-"})))

HasBlacklistPhrase(entry) ==
  \E phrase \in BLACKLIST_PHRASES : ContainsChars(LowerChars(Spell(entry.text)), Spell(phrase))

\* C25: the subtitle-driven pass takes the entries in ascending order of time, injects
\* nothing from an entry that starts before 0.6 s or contains a blacklist phrase, and no
\* two highlights it injects come from entries with the same normalized text.
C25_SrtPassOrderedAndDeduplicated ==
  pc = "trim" =>
    /\ \A i, j \in 1..Len(injected) :
          i < j => /\ EntryOf(injected[i]).start <= EntryOf(injected[j]).start
                   /\ NormalizedSentence(EntryOf(injected[i]))
                        # NormalizedSentence(EntryOf(injected[j]))
    /\ \A i \in 1..Len(injected) :
          /\ EntryOf(injected[i]).start >= 600
          /\ ~HasBlacklistPhrase(EntryOf(injected[i]))

\* C26: a phrase select_keyword_phrase returns, its ellipsis marker included, has at most
\* max_chars characters, for every text and every max_chars.
C26_PhraseWithinMaxChars ==
  (pc = "phrased" /\ phrase_out # Nil) => Len(Get(phrase_out)) <= Get(phrase_in).max_chars

(***************************************************************************)
(* A full run on plans with and without segments: the order of the         *)
(* highlights when the highlight-driven passes start.                      *)
(***************************************************************************)
InitOrder ==
  /\ pc = "enrich_loop"
  /\ segments \in {<<>>} \cup MainPlans
  /\ \E opt \in MainOptionalInputs :
        /\ highlights = opt.highlights
        /\ broll_catalog = opt.broll
        /\ sfx_catalog = opt.sfx
  /\ meta_warnings = Nil
  /\ scene_segments \in SeqsOf(EnrichSceneRecords, 0, 1)
  /\ motion_rules \in {Nil, MotionRules(Some(5), 4)}
  /\ timeline \in MainTimelines
  /\ srt_entries \in MainSrtFiles
  /\ plan_segment = Nil
  /\ scene_summary = Nil
  /\ seg_index = 1
  /\ assigned_motion = 0
  /\ cta_candidates = <<>>
  /\ warnings = <<>>
  /\ seg_before = segments
  /\ hl_before = highlights
  /\ scene_cued = {}
  /\ runs = 0
  /\ phrase_in = Nil
  /\ phrase_out = Nil
  /\ injected = <<>>
  /\ passes = <<>>
  /\ sfx_attached = <<>>
  /\ broll_steps = <<>>
  /\ motion_steps = <<>>
  /\ broll_call = Nil

SpecOrder == InitOrder /\ [][NextMain]_vars

\* C27: when ensure_broll_from_highlights and ensure_motion_from_highlights start,
\* plan.highlights is sorted ascending by start, whatever the synthesis passes injected
\* and although ensure_cta_highlight appends at the end of the list.
C27_HighlightsSortedForHighlightPasses ==
  pc \in {"broll_from_highlights", "motion_from_highlights"} =>
    \A i, j \in 1..Len(highlights) : i < j => highlights[i].start <= highlights[j].start

\* The CTA highlight was appended after a later highlight, a synthesis pass injected
\* another, and the trim pass has put the three in order.
C27_Witness ==
  /\ pc = "broll_from_highlights"
  /\ injected # <<>>
  /\ \E i, j \in 1..Len(highlights) :
        /\ i < j
        /\ highlights[i].id = "cta_subscribe"
        /\ highlights[j].id = "hl-2"

(***************************************************************************)
(* The highlight-driven passes on primary highlights with and without      *)
(* digits and zoom-out keywords.                                           *)
(***************************************************************************)
AlternateHighlights ==
  {TextHighlight("hl-1", 1000, "MARKETING", "primary", None),
   TextHighlight("hl-1", 3000, "TOP 5", "primary", None),
   TextHighlight("hl-1", 12000, "STRATEGY", "primary", None),
   TextHighlight("hl-1", 14000, "5 STEP OVERVIEW", "primary", None),
   TextHighlight("hl-1", 22000, "OVERVIEW", "primary", None),
   TextHighlight("hl-1", 21000, "ONLINE MARKETING", "supporting", None)}

AlternateRules ==
  {Nil,
   Some([motion_frequency |-> Some(3), highlight_rate |-> Some(5),
         zoom_out_keywords |-> Some(<<"overview">>)]),
   Some([motion_frequency |-> Some(10), highlight_rate |-> Nil,
         zoom_out_keywords |-> Some(<<"overview">>)])}

InitAlternate ==
  /\ pc = "broll_from_highlights"
  /\ segments \in EnrichedPlans
  /\ highlights \in SeqsOf(AlternateHighlights, 0, MaxHighlights)
  /\ broll_catalog \in {Nil, Some(HighlightCatalog)}
  /\ motion_rules \in AlternateRules
  /\ sfx_catalog = Nil
  /\ warnings = <<>>
  /\ meta_warnings = Nil
  /\ scene_segments = <<>>
  /\ plan_segment = Nil
  /\ scene_summary = Nil
  /\ seg_index = 0
  /\ assigned_motion = 0
  /\ cta_candidates = <<>>
  /\ seg_before = segments
  /\ hl_before = highlights
  /\ scene_cued = {}
  /\ runs = 0
  /\ phrase_in = Nil
  /\ phrase_out = Nil
  /\ srt_entries = <<>>
  /\ timeline = <<>>
  /\ injected = <<>>
  /\ passes = <<>>
  /\ sfx_attached = <<>>
  /\ broll_steps = <<>>
  /\ motion_steps = <<>>
  /\ broll_call = Nil

SpecAlternate == InitAlternate /\ [][NextFinish]_vars

\* Iteration k of the loop of the motion pass wrote a cue.
WroteCue(k) == motion_steps[k + 1].segs # motion_steps[k].segs

\* The segment iteration k located for its highlight; 0 without one.
LocatedAt(k) ==
  IF highlights[k].start = Missing THEN 0
  ELSE locate_segment(motion_steps[k].segs, highlights[k].start)

\* The cue the pass wrote last before iteration k; None when it has written none.
RECURSIVE LastWritten(_)
LastWritten(k) ==
  IF k = 1 THEN None
  ELSE IF WroteCue(k - 1) THEN motion_steps[k].segs[LocatedAt(k - 1)].motionCue
  ELSE LastWritten(k - 1)

HasDigit(highlight) ==
  \E c \in SeqToSet(JoinChars(HighlightTextParts(highlight))) : c \in Digits

HasZoomOutKeyword(highlight) ==
  /\ RulesGiven(motion_rules)
  /\ With(RuleGet(Get(motion_rules), "zoom_out_keywords", <<>>), LAMBDA words :
       \E w \in 1..Len(words) :
          ContainsChars(LowerChars(JoinChars(HighlightTextParts(highlight))), Spell(words[w])))

\* The cue of a primary highlight, given the cue written last.
AlternatedCue(highlight, last) ==
  IF HasDigit(highlight)
  THEN (IF HasZoomOutKeyword(highlight) /\ last = "zoomIn" THEN "zoomOut" ELSE "zoomIn")
  ELSE (IF last = "zoomIn" THEN "zoomOut" ELSE "zoomIn")

\* C28: in ensure_motion_from_highlights the cue of a primary highlight with no digit in
\* its combined text is zoomOut if the cue the pass wrote last was zoomIn and zoomIn
\* otherwise; with a digit it is zoomOut only when a zoom-out keyword is present and the
\* cue written last was zoomIn, else zoomIn.  The cue is the one the iteration writes, or
\* the one the segment has already when the iteration writes nothing.
C28_PrimaryHighlightsAlternate ==
  pc = "highlight_sfx" =>
    \A k \in 1..(Len(motion_steps) - 1) :
       (highlights[k].importance = "primary" /\ LocatedAt(k) # 0) =>
          /\ motion_steps[k].last_motion = LastWritten(k)
          /\ motion_steps[k + 1].segs[LocatedAt(k)].motionCue
               = AlternatedCue(highlights[k], LastWritten(k))

\* C28 witness: the pass wrote zoomIn for a first primary highlight, then zoomOut for a
\* primary highlight with a digit and a zoom-out keyword, then zoomIn for a primary
\* highlight without a digit.
C28_Witness ==
  /\ pc = "highlight_sfx"
  /\ Len(motion_steps) = 4
  /\ \A k \in 1..3 : highlights[k].importance = "primary" /\ WroteCue(k)
  /\ LastWritten(2) = "zoomIn"
  /\ HasDigit(highlights[2]) /\ HasZoomOutKeyword(highlights[2])
  /\ LastWritten(3) = "zoomOut"
  /\ ~HasDigit(highlights[3])
  /\ motion_steps[4].segs[LocatedAt(3)].motionCue = "zoomIn"

\* C29: ensure_broll_from_highlights only fills gaps: a segment that carries a broll when
\* the pass starts keeps exactly that broll, no iteration of the pass removes or replaces
\* a broll, and so no segment is assigned to twice.
C29_BrollPassOnlyFillsGaps ==
  /\ pc = "motion_from_highlights" =>
       \A i \in 1..Len(segments) :
          seg_before[i].broll # Nil => segments[i].broll = seg_before[i].broll
  /\ \A k \in 1..(Len(broll_steps) - 1) :
       \A i \in 1..Len(broll_steps[k].segs) :
          broll_steps[k].segs[i].broll # Nil =>
            broll_steps[k + 1].segs[i].broll = broll_steps[k].segs[i].broll

\* C29 witness: a segment carried a broll, two highlights in one segment without a broll
\* matched catalog items, and the pass gave that segment the item of the first and left
\* the other segment's broll alone.
C29_Witness ==
  /\ pc = "motion_from_highlights"
  /\ \E i \in 1..Len(segments) :
        /\ seg_before[i].broll # Nil
        /\ \E k \in 1..Len(highlights) :
              /\ highlights[k].start # Missing
              /\ locate_segment(seg_before, highlights[k].start) = i
              /\ match_broll_id(JoinChars(HighlightTextParts(highlights[k]))) # None
  /\ \E i \in 1..Len(segments) :
        /\ seg_before[i].broll = Nil
        /\ segments[i].broll # Nil
        /\ Cardinality({k \in 1..Len(highlights) :
              /\ highlights[k].start # Missing
              /\ locate_segment(seg_before, highlights[k].start) = i
              /\ match_broll_id(JoinChars(HighlightTextParts(highlights[k]))) # None}) >= 2

\* The CTA highlights of a list.
CtaHighlights(hls) == {hls[i] : i \in {k \in 1..Len(hls) : hls[k].id = "cta_subscribe"}}

\* C30: a CTA highlight ensure_cta_highlight appended survives the passes that follow in
\* the same run: every later pass, the trim pass and the SFX attach and strip passes
\* included, leaves it in plan.highlights with its sfx and volume, so the plan that is
\* written has it with its sound effect.
C30_CtaSurvivesFinishingPasses ==
  /\ [][\A cta \in CtaHighlights(highlights) :
          \E kept \in CtaHighlights(highlights') :
             /\ kept.sfx = cta.sfx
             /\ kept.volume = cta.volume
             /\ kept.start = cta.start]_vars
  /\ [](pc = "written" /\ CtaFlagged # {} =>
          \E cta \in CtaHighlights(highlights) : cta.sfx # None /\ cta.volume = 7)

\* C30 witness: the plan is written with the CTA highlight, after the attach pass gave a
\* sound effect to another highlight.
C30_Witness ==
  /\ pc = "written"
  /\ CtaHighlights(highlights) # {}
  /\ \E i \in 1..Len(highlights) : sfx_attached[i] # Nil

====
